---- MODULE Spec2Model ----
(***************************************************************************)
(* Lab-report PDF server: the upload handlers (index.js, routes/upload)    *)
(* and the result summarizer (generateSummaries, removeDuplicates).        *)
(*                                                                         *)
(* Text is modelled as a sequence of one-character strings, so that        *)
(* split, join, trim, lower-casing and the regular expressions of the     *)
(* source are computed character by character.                             *)
(***************************************************************************)
EXTENDS Integers, Sequences, FiniteSets, TLC

(***************************************************************************)
(* Bounds of the model (not program constants).                            *)
(***************************************************************************)
MaxParts == 2       \* split parts of one document
MaxPages == 2       \* pages handed to one generateSummaries call
MaxChunks == 2      \* chunks of one page
MaxRespLines == 2   \* lines in one extraction response
MaxLines == 3       \* lines extracted from one document, all calls together

(***************************************************************************)
(* Characters and strings.                                                 *)
(***************************************************************************)
NL == "\n"

UpperLetters == <<"A","B","C","D","E","F","G","H","I","J","K","L","M",
                  "N","O","P","Q","R","S","T","U","V","W","X","Y","Z">>

LowerLetters == <<"a","b","c","d","e","f","g","h","i","j","k","l","m",
                  "n","o","p","q","r","s","t","u","v","w","x","y","z">>

Digits == {"0","1","2","3","4","5","6","7","8","9"}

\* String.prototype.toLowerCase on one character
ToLowerChar(c) ==
  IF \E i \in 1..26 : UpperLetters[i] = c
    THEN LowerLetters[CHOOSE i \in 1..26 : UpperLetters[i] = c]
    ELSE c

\* String.prototype.toLowerCase
ToLowerCase(s) == [i \in 1..Len(s) |-> ToLowerChar(s[i])]

\* white space as String.prototype.trim and \s see it
IsSpace(c) == c \in {" ", "\t", "\r", NL}

\* \w of a regular expression without the u flag
IsWordChar(c) ==
  \/ \E i \in 1..26 : UpperLetters[i] = c \/ LowerLetters[i] = c
  \/ c \in Digits
  \/ c = "_"

RECURSIVE TrimLeft(_)
TrimLeft(s) ==
  IF s # <<>> /\ IsSpace(Head(s)) THEN TrimLeft(Tail(s)) ELSE s

RECURSIVE TrimRight(_)
TrimRight(s) ==
  IF s # <<>> /\ IsSpace(s[Len(s)]) THEN TrimRight(SubSeq(s, 1, Len(s) - 1)) ELSE s

\* String.prototype.trim
Trim(s) == TrimRight(TrimLeft(s))

\* index of the first occurrence of character c in s, 0 when there is none
IndexOfChar(s, c) ==
  IF \E i \in 1..Len(s) : s[i] = c
    THEN CHOOSE i \in 1..Len(s) : s[i] = c /\ \A j \in 1..(i - 1) : s[j] # c
    ELSE 0

\* String.prototype.split('\n')
RECURSIVE SplitLines(_)
SplitLines(s) ==
  LET k == IndexOfChar(s, NL) IN
  IF k = 0 THEN <<s>>
  ELSE <<SubSeq(s, 1, k - 1)>> \o SplitLines(SubSeq(s, k + 1, Len(s)))

\* Array.prototype.join('\n')
RECURSIVE JoinLines(_)
JoinLines(ls) ==
  IF ls = <<>> THEN <<>>
  ELSE IF Len(ls) = 1 THEN ls[1]
  ELSE ls[1] \o <<NL>> \o JoinLines(Tail(ls))

\* the word w stands in s at position i between two word boundaries (\bw\b)
WordAt(s, w, i) ==
  /\ i + Len(w) - 1 <= Len(s)
  /\ SubSeq(s, i, i + Len(w) - 1) = w
  /\ (i = 1 \/ ~IsWordChar(s[i - 1]))
  /\ (i + Len(w) - 1 = Len(s) \/ ~IsWordChar(s[i + Len(w)]))

\* /\b(w1|w2|...)\b/.test(s)
HasWord(s, ws) == \E w \in ws : \E i \in 1..Len(s) : WordAt(s, w, i)


(***************************************************************************)
(* Exam lines: generateSummaries' line handling and removeDuplicates.      *)
(***************************************************************************)
SynTgo == { <<"t","g","o">>, <<"a","s","t">>,
            <<"a","s","p","a","r","t","a","t","o">> }

SynTgp == { <<"t","g","p">>, <<"a","l","t">>, <<"a","l","a","n","i","n","a">> }

SynGgt == { <<"g","a","m","m","a">>, <<"g","a","m","a">>, <<"g","g","t">> }

SynGlicose == { <<"g","l","i","c","o","s","e">>,
                <<"g","l","i","c","e","m","i","a">> }

KeyTgo == <<"t","g","o">>

KeyTgp == <<"t","g","p">>

KeyGgt == <<"g","g","t">>

KeyGlicose == <<"g","l","i","c","o","s","e">>

\* line.replace(/^-\s*/, '').trim()
NormalizeLine(line) ==
  IF line # <<>> /\ Head(line) = "-" THEN Trim(TrimLeft(Tail(line))) ELSE Trim(line)

\* line.match(/^([^:]+):/) succeeds
HasExamName(line) == IndexOfChar(line, ":") >= 2

\* match[1] of line.match(/^([^:]+):/)
RawExamName(line) == SubSeq(line, 1, IndexOfChar(line, ":") - 1)

\* examKey of generateSummaries, for a line that has an exam name
ExamKey(line) ==
  LET examName == ToLowerCase(Trim(RawExamName(line))) IN
  IF HasWord(examName, SynTgo) THEN KeyTgo
  ELSE IF HasWord(examName, SynTgp) THEN KeyTgp
  ELSE IF HasWord(examName, SynGgt) THEN KeyGgt
  ELSE IF HasWord(examName, SynGlicose) THEN KeyGlicose
  ELSE examName

\* the body of extractedLines.forEach, folded over the lines of one response;
\* acc = [seen |-> seenExams, res |-> pageResults]
RECURSIVE ProcessLines(_, _)
ProcessLines(lines, acc) ==
  IF lines = <<>> THEN acc
  ELSE
    LET raw == Head(lines)
        line == NormalizeLine(raw)
        next ==
          IF Trim(raw) = <<>> THEN acc
          ELSE IF HasExamName(line)
            THEN IF ExamKey(line) \in acc.seen
                   THEN acc
                   ELSE [seen |-> acc.seen \cup {ExamKey(line)},
                         res |-> Append(acc.res, line)]
            ELSE [seen |-> acc.seen, res |-> Append(acc.res, line)]
    IN ProcessLines(Tail(lines), next)

\* response.choices[0].message.content.trim().split('\n')
ExtractedLines(content) == SplitLines(Trim(content))

PacientePrefix == <<"P","a","c","i","e","n","t","e",":"," ">>

\* `Paciente: ${patientName}\n\n` + allResults.join('\n')
FinalContent(patientName, results) ==
  PacientePrefix \o patientName \o <<NL, NL>> \o JoinLines(results)

\* the loop of removeDuplicates over examLines
RECURSIVE UniqueLines(_, _, _)
UniqueLines(examLines, seen, acc) ==
  IF examLines = <<>> THEN acc
  ELSE
    LET line == Head(examLines) IN
    IF HasExamName(line)
      THEN LET examName == Trim(RawExamName(line)) IN
           IF examName \in seen
             THEN UniqueLines(Tail(examLines), seen, acc)
             ELSE UniqueLines(Tail(examLines), seen \cup {examName}, Append(acc, line))
      ELSE UniqueLines(Tail(examLines), seen, Append(acc, line))

\* removeDuplicates with lines.slice(1) in place of lines.slice(2)
RemoveDuplicatesSlice1(content) ==
  LET lines == SplitLines(content)
      examLines == SubSeq(lines, 2, Len(lines))
  IN lines[1] \o <<NL, NL>> \o JoinLines(UniqueLines(examLines, {}, <<>>))

\* removeDuplicates(content)
RemoveDuplicates(content) ==
  LET lines == SplitLines(content)
      patientLine == lines[1]
      examLines == SubSeq(lines, 3, Len(lines))
  IN patientLine \o <<NL, NL>> \o JoinLines(UniqueLines(examLines, {}, <<>>))


(***************************************************************************)
(* Inputs of the summarizer: what the extraction capability may answer.    *)
(***************************************************************************)
LineAst == <<"A","S","T",":"," ","3">>

LineTgo == <<"T","G","O",":"," ","3">>

LineGlicose == <<"-"," ","G","l","i","c","o","s","e",":"," ","9">>

LineHb == <<"H","b",":"," ","1">>

LineNote == <<"n","o","t","a">>

LinePool == {LineAst, LineTgo, LineGlicose, LineHb, LineNote}

\* the texts an extraction response can be: up to MaxRespLines lines
Responses ==
  UNION { [1..n -> LinePool] : n \in 0..MaxRespLines }

NameSilva == <<"A"," ","B">>

\* a name as the /i patterns capture it, white space (a line break) included
NameTwoLines == <<"A"," ","B",NL,"C">>

PatientNames == {NameSilva, NameTwoLines}

ErrorPartLine ==
  <<"E","r","r","o"," ","a","o"," ","p","r","o","c","e","s","s","a","r">>

VARIABLES
  sPc,           \* position in the per-part loop / generateSummaries
  sPatient,      \* patientName
  sNumParts,     \* pdfParts.length
  sPart,         \* i + 1 of the per-part loop
  sPagesLeft,    \* pages of the current part still to iterate
  sPage,         \* index of the current page in its part
  sChunksLeft,   \* chunks of the current page still to send
  seenExams,     \* seenExams of the running generateSummaries
  pageResults,   \* pageResults of the current page
  allResults,    \* allResults of the running generateSummaries
  allSummaries,  \* allSummaries of the handler: sequence of contents
  extracted,     \* history: every non-blank line the capability returned
  failedPages    \* history: the <<part, page>> whose iteration raised

VARIABLES
  rdIn,          \* the content removeDuplicates is first applied to
  rdOut          \* the results of the successive applications

VARIABLES
  callIn,        \* the arguments and environment of a function called on its own
  callOut        \* what its calls returned, in order

VARIABLES
  now,           \* Date.now(), in milliseconds
  uploads        \* the requests in flight together: name, position, paths

VARIABLES
  route,             \* which upload handler serves the request
  isVercel,          \* isVercelEnvironment()
  file,              \* the upload: presence, mimetype, size, signature, ...
  unlinkFails,       \* paths whose fs.unlinkSync raises
  pc,                \* position of the request
  uploadError,       \* error multer ends the upload with, "none" otherwise
  storage,           \* paths that exist in the upload directory
  tempFiles,         \* tempFiles of the handler
  validationResult,  \* result of validatePdf
  isEncrypted,       \* result of isPdfEncrypted
  finalText,         \* finalText: "null" or the kind of text accepted
  pdfParts,          \* pdfParts.length, 0 while pdfParts is null
  extractionMethod,  \* extractionMethod
  processingResults, \* processingResults
  stageLog,          \* history: the recovery stages run, with their outcome
  responses,         \* responses sent, in order
  unhandled          \* an exception left the handler

sumVars == <<sPc, sPatient, sNumParts, sPart, sPagesLeft, sPage, sChunksLeft,
             seenExams, pageResults, allResults, allSummaries, extracted,
             failedPages>>

concVars == <<now, uploads>>

callVars == <<callIn, callOut, concVars>>

rdVars == <<rdIn, rdOut, callVars>>

reqVars == <<route, isVercel, file, unlinkFails, pc, uploadError, storage,
             tempFiles, validationResult, isEncrypted, finalText, pdfParts,
             extractionMethod, processingResults, stageLog, responses, unhandled>>

vars == <<sumVars, rdVars, reqVars>>

\* the summarizer at rest, while another part of the model runs
SumIdle ==
  /\ sPc = "idle"
  /\ sPatient = <<>>
  /\ sNumParts = 0
  /\ sPart = 0
  /\ sPagesLeft = 0
  /\ sPage = 0
  /\ sChunksLeft = 0
  /\ seenExams = {}
  /\ pageResults = <<>>
  /\ allResults = <<>>
  /\ allSummaries = <<>>
  /\ extracted = <<>>
  /\ failedPages = {}

\* no requests are followed side by side
ConcIdle ==
  /\ now = 0
  /\ uploads = <<>>

\* no function is called on its own
CallIdle ==
  /\ callIn = <<>>
  /\ callOut = <<>>
  /\ ConcIdle

RdIdle ==
  /\ rdIn = <<>>
  /\ rdOut = <<>>
  /\ CallIdle

ReqIdle ==
  /\ route = "idle"
  /\ isVercel = FALSE
  /\ file = [present |-> FALSE]
  /\ unlinkFails = {}
  /\ pc = "idle"
  /\ uploadError = "none"
  /\ storage = {}
  /\ tempFiles = <<>>
  /\ validationResult = [valid |-> FALSE, message |-> "none"]
  /\ isEncrypted = FALSE
  /\ finalText = "null"
  /\ pdfParts = 0
  /\ extractionMethod = "normal"
  /\ processingResults = <<>>
  /\ stageLog = <<>>
  /\ responses = <<>>
  /\ unhandled = FALSE

SumInit ==
  /\ RdIdle
  /\ ReqIdle
  /\ sPc = "part"
  /\ sPatient \in PatientNames
  /\ sNumParts \in 1..MaxParts
  /\ sPart = 1
  /\ sPagesLeft = 0
  /\ sPage = 0
  /\ sChunksLeft = 0
  /\ seenExams = {}
  /\ pageResults = <<>>
  /\ allResults = <<>>
  /\ allSummaries = <<>>
  /\ extracted = <<>>
  /\ failedPages = {}

\* parsePdf(partBuffer) raises: the catch of the per-part loop
PartRaise ==
  /\ sPc = "part"
  /\ sPart <= sNumParts
  /\ allSummaries' =
       Append(allSummaries, PacientePrefix \o sPatient \o <<NL, NL>> \o ErrorPartLine)
  /\ sPart' = sPart + 1
  /\ UNCHANGED <<rdVars, reqVars, failedPages>>
  /\ UNCHANGED <<sPc, sPatient, sNumParts, sPagesLeft, sPage, sChunksLeft,
                 seenExams, pageResults, allResults, extracted>>

\* parsePdf(partBuffer) returns pages; generateSummaries starts on them
PartStart ==
  /\ sPc = "part"
  /\ sPart <= sNumParts
  /\ \E n \in 1..MaxPages : sPagesLeft' = n
  /\ sPage' = 0
  /\ seenExams' = {}
  /\ allResults' = <<>>
  /\ pageResults' = <<>>
  /\ sPc' = "page"
  /\ UNCHANGED <<rdVars, reqVars, failedPages>>
  /\ UNCHANGED <<sPatient, sNumParts, sPart, sChunksLeft, allSummaries, extracted>>

\* for (const page of pages): splitTextIntoChunks(page.text), pageResults = []
PageStart ==
  /\ sPc = "page"
  /\ sPagesLeft > 0
  /\ \E n \in 0..MaxChunks : sChunksLeft' = n
  /\ sPage' = sPage + 1
  /\ sPagesLeft' = sPagesLeft - 1
  /\ pageResults' = <<>>
  /\ sPc' = "chunk"
  /\ UNCHANGED <<rdVars, reqVars, failedPages>>
  /\ UNCHANGED <<sPatient, sNumParts, sPart, seenExams, allResults,
                 allSummaries, extracted>>

\* the history entries of one response
RECURSIVE Logged(_, _, _)
Logged(lines, part, page) ==
  IF lines = <<>> THEN <<>>
  ELSE IF Trim(Head(lines)) = <<>> THEN Logged(Tail(lines), part, page)
  ELSE <<[part |-> part, page |-> page, line |-> NormalizeLine(Head(lines))]>>
         \o Logged(Tail(lines), part, page)

\* one chunk: the extraction call answers and its lines are processed
ChunkOk ==
  /\ sPc = "chunk"
  /\ sChunksLeft > 0
  /\ \E resp \in Responses :
       LET lines == ExtractedLines(JoinLines(resp))
           acc == ProcessLines(lines, [seen |-> seenExams, res |-> pageResults])
           log == Logged(lines, sPart, sPage)
       IN /\ Len(extracted) + Len(log) <= MaxLines
          /\ seenExams' = acc.seen
          /\ pageResults' = acc.res
          /\ extracted' = extracted \o log
  /\ sChunksLeft' = sChunksLeft - 1
  /\ UNCHANGED <<rdVars, reqVars, failedPages>>
  /\ UNCHANGED <<sPc, sPatient, sNumParts, sPart, sPagesLeft, sPage, allResults,
                 allSummaries>>

\* one chunk: the extraction call raises; the catch of the page's try block
\* ends the page, and pageResults is never added to allResults
ChunkFail ==
  /\ sPc = "chunk"
  /\ sChunksLeft > 0
  /\ sChunksLeft' = 0
  /\ pageResults' = <<>>
  /\ sPc' = "page"
  /\ failedPages' = failedPages \cup {<<sPart, sPage>>}
  /\ UNCHANGED <<rdVars, reqVars>>
  /\ UNCHANGED <<sPatient, sNumParts, sPart, sPagesLeft, sPage, seenExams,
                 allResults, allSummaries, extracted>>

\* allResults = [...allResults, ...pageResults]
PageEnd ==
  /\ sPc = "chunk"
  /\ sChunksLeft = 0
  /\ allResults' = allResults \o pageResults
  /\ pageResults' = <<>>
  /\ sPc' = "page"
  /\ UNCHANGED <<rdVars, reqVars, failedPages>>
  /\ UNCHANGED <<sPatient, sNumParts, sPart, sPagesLeft, sPage, sChunksLeft,
                 seenExams, allSummaries, extracted>>

\* generateSummaries returns [{page: 1, content: finalContent}];
\* allSummaries.push(...summaries)
PartEnd ==
  /\ sPc = "page"
  /\ sPagesLeft = 0
  /\ allSummaries' = Append(allSummaries, FinalContent(sPatient, allResults))
  /\ sPart' = sPart + 1
  /\ sPc' = "part"
  /\ UNCHANGED <<rdVars, reqVars, failedPages>>
  /\ UNCHANGED <<sPatient, sNumParts, sPagesLeft, sPage, sChunksLeft, seenExams,
                 pageResults, allResults, extracted>>

\* allSummaries[i].content = removeDuplicates(allSummaries[i].content), every i
Dedup ==
  /\ sPc = "part"
  /\ sPart > sNumParts
  /\ allSummaries' = [i \in 1..Len(allSummaries) |-> RemoveDuplicates(allSummaries[i])]
  /\ sPc' = "done"
  /\ UNCHANGED <<rdVars, reqVars, failedPages>>
  /\ UNCHANGED <<sPatient, sNumParts, sPart, sPagesLeft, sPage, sChunksLeft,
                 seenExams, pageResults, allResults, extracted>>

SumNext ==
  \/ PartRaise
  \/ PartStart
  \/ PageStart
  \/ ChunkOk
  \/ ChunkFail
  \/ PageEnd
  \/ PartEnd
  \/ Dedup

SpecSum == SumInit /\ [][SumNext]_vars

(***************************************************************************)
(* What the response of the summarizer is held against.                    *)
(***************************************************************************)
\* the exam lines of a summary content: everything after the patient header
ExamLinesOf(content) ==
  LET lines == SplitLines(content) IN SubSeq(lines, 3, Len(lines))

\* the positions <<summary, line>> of the exam lines that carry a name
KeyedPositions ==
  { pos \in UNION { {i} \X (1..Len(ExamLinesOf(allSummaries[i])))
                    : i \in 1..Len(allSummaries) } :
      HasExamName(ExamLinesOf(allSummaries[pos[1]])[pos[2]]) }

LineAtPosition(pos) == ExamLinesOf(allSummaries[pos[1]])[pos[2]]

\* C2: in the summaries of a finished request, no two exam lines share a
\* canonical key, whichever pages, chunks or split parts they came from.
C2_NoSharedKeyInResponse ==
  sPc = "done" =>
    \A p1 \in KeyedPositions : \A p2 \in KeyedPositions :
      p1 # p2 => ExamKey(LineAtPosition(p1)) # ExamKey(LineAtPosition(p2))

\* the lines the capability returned for the pages of one part that were
\* iterated to their end, in order
RECURSIVE LinesOfPart(_, _)
LinesOfPart(log, part) ==
  IF log = <<>> THEN <<>>
  ELSE IF Head(log).part = part /\ <<part, Head(log).page>> \notin failedPages
    THEN <<Head(log).line>> \o LinesOfPart(Tail(log), part)
    ELSE LinesOfPart(Tail(log), part)

\* the subsequence of first occurrences by canonical key; a line without an
\* exam name has no key and stays
RECURSIVE FirstOccurrences(_, _)
FirstOccurrences(lines, keys) ==
  IF lines = <<>> THEN <<>>
  ELSE IF ~HasExamName(Head(lines))
    THEN <<Head(lines)>> \o FirstOccurrences(Tail(lines), keys)
  ELSE IF ExamKey(Head(lines)) \in keys
    THEN FirstOccurrences(Tail(lines), keys)
  ELSE <<Head(lines)>>
         \o FirstOccurrences(Tail(lines), keys \cup {ExamKey(Head(lines))})

\* C3: when generateSummaries has iterated its last page, its merged output
\* is exactly the first-occurrence subsequence of the outputs of the pages
\* it merged, in extraction order.
C3_MergedIsFirstOccurrences ==
  (sPc = "page" /\ sPagesLeft = 0) =>
    allResults = FirstOccurrences(LinesOfPart(extracted, sPart), {})

\* exam lines and the canonical key the claim gives each of them
KeyTable ==
  { <<<<"A","S","T",":"," ","3">>,
      <<"t","g","o">>>>,
    <<<<"T","G","O",":"," ","3">>,
      <<"t","g","o">>>>,
    <<<<"A","s","p","a","r","t","a","t","o",":"," ","3">>,
      <<"t","g","o">>>>,
    <<<<"T","G","P",":"," ","3">>,
      <<"t","g","p">>>>,
    <<<<"A","L","T",":"," ","3">>,
      <<"t","g","p">>>>,
    <<<<"A","l","a","n","i","n","a",":"," ","3">>,
      <<"t","g","p">>>>,
    <<<<"G","a","m","m","a"," ","G","T",":"," ","3">>,
      <<"g","g","t">>>>,
    <<<<"G","a","m","a"," ","G","T",":"," ","3">>,
      <<"g","g","t">>>>,
    <<<<"G","G","T",":"," ","3">>,
      <<"g","g","t">>>>,
    <<<<"G","l","i","c","o","s","e",":"," ","9">>,
      <<"g","l","i","c","o","s","e">>>>,
    <<<<"G","l","i","c","e","m","i","a",":"," ","9">>,
      <<"g","l","i","c","o","s","e">>>>,
    <<<<"H","b",":"," ","1">>,
      <<"h","b">>>> }

\* the log entries whose line has the key tgo
TgoEntries == { i \in 1..Len(extracted) :
                  /\ HasExamName(extracted[i].line)
                  /\ ExamKey(extracted[i].line) = KeyTgo }

\* C4: the canonical key is the lowercased exam name with the synonym folding
\* of the table, and so "AST: 3" and "TGO: 3" returned for different pages of
\* one request leave exactly one line in the response, the first of the two.
C4_SynonymsCollapseToFirst ==
  /\ \A e \in KeyTable : ExamKey(e[1]) = e[2]
  /\ sPc = "done" =>
       \A i \in TgoEntries : \A j \in TgoEntries :
         ( /\ extracted[i].line = LineAst
           /\ extracted[j].line = LineTgo
           /\ <<extracted[i].part, extracted[i].page>>
                # <<extracted[j].part, extracted[j].page>> )
         =>
         \E pos \in KeyedPositions :
           /\ LineAtPosition(pos) = extracted[CHOOSE m \in TgoEntries :
                                       \A n \in TgoEntries : m <= n].line
           /\ \A other \in KeyedPositions :
                ExamKey(LineAtPosition(other)) = KeyTgo => other = pos

(***************************************************************************)
(* removeDuplicates on its own: applied again and again to one content.    *)
(***************************************************************************)
MaxRdLines == 3  \* lines after the header of a content removeDuplicates gets

MaxApplications == 2  \* applications of removeDuplicates in a row

LineGlicoseA == <<"G","l","i","c","o","s","e",":"," ","9">>

LineGlicoseB == <<"G","l","i","c","o","s","e",":"," ","7">>

\* the lines of a summary: named, named again with another value, unnamed, blank
RdPool == {LineAst, LineGlicoseA, LineGlicoseB, LineNote, <<>>}

\* summary contents as generateSummaries of any of the handlers builds them:
\* the patient header, a blank line, the result lines
RdContents ==
  { FinalContent(name, ls) :
      name \in PatientNames,
      ls \in UNION { [1..n -> RdPool] : n \in 0..MaxRdLines } }

RdInit ==
  /\ SumIdle
  /\ ReqIdle
  /\ rdIn \in RdContents
  /\ rdOut = <<>>
  /\ CallIdle

\* content = removeDuplicates(content)
RdApply ==
  /\ Len(rdOut) < MaxApplications
  /\ rdOut' = Append(rdOut, RemoveDuplicates(IF rdOut = <<>> THEN rdIn
                                             ELSE rdOut[Len(rdOut)]))
  /\ UNCHANGED <<rdIn, callVars, sumVars, reqVars>>

RdNext ==
  \/ RdApply

SpecDedup == RdInit /\ [][RdNext]_vars

\* a content is deduplicated when its second line is blank and no two of its
\* exam lines carry the same name
IsDeduplicated(content) ==
  LET lines == SplitLines(content)
      examLines == ExamLinesOf(content)
  IN /\ Len(lines) >= 2
     /\ lines[2] = <<>>
     /\ \A i \in 1..Len(examLines) : \A j \in 1..Len(examLines) :
          ( /\ i # j
            /\ HasExamName(examLines[i])
            /\ HasExamName(examLines[j]) )
          => Trim(RawExamName(examLines[i])) # Trim(RawExamName(examLines[j]))

\* C5: removeDuplicates is idempotent: a second application returns what the
\* first returned, and a content that is already deduplicated comes back
\* unchanged.
C5_RemoveDuplicatesIdempotent ==
  /\ Len(rdOut) >= 2 => rdOut[2] = rdOut[1]
  /\ (Len(rdOut) >= 1 /\ IsDeduplicated(rdIn)) => rdOut[1] = rdIn

\* removeDuplicates was applied twice to a content with a repeated exam name,
\* and the first application removed a line
C5_Witness ==
  /\ Len(rdOut) >= 2
  /\ ~IsDeduplicated(rdIn)
  /\ Len(ExamLinesOf(rdOut[1])) < Len(ExamLinesOf(rdIn))

(***************************************************************************)
(* The upload request: multer, the handler, its recovery stages, the       *)
(* cleanup and the response.  Three handlers serve uploads: "api" is       *)
(* app.post('/api/upload') of index.js, "estrategias" is the      *)
(* router of ESTRATEGIA 1 to 4 (processOcr among them), "tentativas" the   *)
(* router of TENTATIVA 1 to 5 (Ghostscript and the split into parts).      *)
(***************************************************************************)
Routes == {"api", "estrategias", "tentativas"}

FileSizeLimit == 52428800  \* limits.fileSize, 50 * 1024 * 1024

BytesPerMB == 1048576  \* 1024 * 1024 of fileSizeInMB

MaxPdfMB == 50  \* fileSizeInMB > 50

DirectMaxKB == 1000  \* fileSizeKB <= 1000

PdfMime == "application/pdf"

PdfSignature == "%PDF-"

\* sizes in bytes: under and over the direct-parse threshold, at and over the limit
FileSizes == {512000, 2097152, FileSizeLimit, FileSizeLimit + 1}

\* the uploads a client can send; no file part at all is one of them
Files ==
  { [present |-> FALSE, mimetype |-> PdfMime, size |-> 512000,
     signature |-> PdfSignature, encrypted |-> FALSE, extractable |-> FALSE] }
  \cup
  [ present : {TRUE}, mimetype : {PdfMime, "text/plain"}, size : FileSizes,
    signature : {PdfSignature, "PK"}, encrypted : BOOLEAN,
    extractable : BOOLEAN ]

\* paths of the upload directory: req.file.path and what the stages derive
\* from it by a suffix
Path(suffix, n) == [suffix |-> suffix, n |-> n]

FilePath == Path("", 0)

DecryptedPath == Path("_decrypted.pdf", 0)

RepairedPath == Path("_repaired.pdf", 0)

\* gsResult.repairedPath; tryRepairWithGhostscript is not part of the source
\* tree, the suffix stands for whatever name it derives
GsRepairedPath == Path("_gs_repaired.pdf", 0)

PartPath(i) == Path("_part_", i)

AllPaths ==
  {FilePath, DecryptedPath, RepairedPath, GsRepairedPath}
    \cup { PartPath(i) : i \in 1..MaxParts }

Range(seq) == { seq[i] : i \in 1..Len(seq) }

\* Math.round(fileStats.size / 1024)
FileSizeKB(f) == (2 * f.size + 1024) \div 2048

\* fileFilter and limits of multer, without the fileSize limit
MulterAcceptsNoLimit(f) == f.mimetype = PdfMime

\* fileFilter and limits of multer: the upload reaches the handler
MulterAccepts(f) == f.mimetype = PdfMime /\ f.size <= FileSizeLimit

\* validatePdf(filePath); load is what PDFDocument.load and the fallback
\* isBasicallyValidPdf make of the bytes
ValidatePdf(exists, f, load) ==
  IF ~exists
    THEN [valid |-> FALSE, message |-> "Arquivo nao encontrado no servidor"]
  ELSE IF f.size > MaxPdfMB * BytesPerMB
    THEN [valid |-> FALSE, message |-> "O arquivo PDF e muito grande (maximo 50MB)"]
  ELSE IF f.signature # PdfSignature
    THEN [valid |-> FALSE, message |-> "O arquivo nao e um PDF valido"]
  ELSE IF load = "loaded"
    THEN [valid |-> TRUE, message |-> "PDF valido"]
  ELSE IF load = "basic"
    THEN [valid |-> TRUE, message |-> "PDF valido mas com problemas"]
  ELSE IF load = "broken"
    THEN [valid |-> FALSE, message |-> "O PDF parece ter problemas"]
  ELSE [valid |-> FALSE, message |-> "Erro ao validar o arquivo PDF"]

LoadOutcomes == {"loaded", "basic", "broken", "raise"}

\* what parsePdf makes of a document: text of its pages, a few characters
\* of text, pages without text, the metadata or error page of the last
\* method, or an exception
ParseOutcomes(f) ==
  IF f.signature = PdfSignature /\ f.extractable
    THEN {"text"}
    ELSE {"short", "empty", "meta", "raise"}

\* truthiness of the text a parse or an OCR run returned
HasText(outcome) == outcome \in {"text", "short", "meta", "errtext"}

\* processOcr: text, a few characters of text, no text, the "Erro de
\* processamento" placeholder of a part the service refused, or an exception
OcrOutcomes == {"text", "short", "empty", "errtext", "raise"}

\* attemptPdfDecryption, repairPdf, tryRepairWithGhostscript
ToolOutcomes == {"success", "fail", "raise"}

\* a cleanup that removes the listed paths and leaves the original
CleanupTempOnly(st, temps, original) ==
  st \ { path \in Range(temps) : path \notin unlinkFails }

\* the fs.unlinkSync loop of the cleanup: every listed path and the original
\* are removed, unless removing the path raises
Cleanup(st, temps, original) ==
  st \ { path \in Range(temps) \cup {original} : path \notin unlinkFails }

\* res.json / res.status(..).json: sends if nothing was sent yet
CanSend == responses = <<>>

Response(status, method, details) ==
  [status |-> status, extractionMethod |-> method, processingDetails |-> details]

Attempt(method) == [method |-> method, success |-> FALSE]

Stage(name, accepted) == [stage |-> name, accepted |-> accepted]

Init ==
  /\ SumIdle
  /\ RdIdle
  /\ route \in Routes
  /\ isVercel \in BOOLEAN
  /\ file \in Files
  /\ unlinkFails \in {{}} \cup { {path} : path \in AllPaths }
  /\ pc = "upload"
  /\ uploadError = "none"
  /\ storage = {}
  /\ tempFiles = <<>>
  /\ validationResult = [valid |-> FALSE, message |-> "none"]
  /\ isEncrypted = FALSE
  /\ finalText = "null"
  /\ pdfParts = 0
  /\ extractionMethod = "normal"
  /\ processingResults = <<>>
  /\ stageLog = <<>>
  /\ responses = <<>>
  /\ unhandled = FALSE

\* upload.single('pdf'): the file is stored under the upload directory and
\* the handler is called, or multer ends the request with its error
Upload ==
  /\ pc = "upload"
  /\ IF ~file.present
       THEN /\ pc' = "handler"
            /\ UNCHANGED <<uploadError, storage>>
     ELSE IF MulterAccepts(file)
       THEN /\ pc' = "handler"
            /\ storage' = {FilePath}
            /\ UNCHANGED uploadError
     ELSE /\ pc' = "done"
          /\ uploadError' = IF file.mimetype # PdfMime
                              THEN "Apenas arquivos PDF sao permitidos"
                              ELSE "LIMIT_FILE_SIZE"
          /\ UNCHANGED storage
  /\ UNCHANGED <<sumVars, rdVars>>
  /\ UNCHANGED <<route, isVercel, file, unlinkFails, tempFiles, validationResult,
                 isEncrypted, finalText, pdfParts, extractionMethod,
                 processingResults, stageLog, responses, unhandled>>

\* if (!req.file) return res.status(400).json(..)
HandlerNoFile ==
  /\ pc = "handler"
  /\ ~file.present
  /\ responses' = Append(responses, Response(400, "none", <<>>))
  /\ pc' = "done"
  /\ UNCHANGED <<sumVars, rdVars>>
  /\ UNCHANGED <<route, isVercel, file, unlinkFails, uploadError, storage,
                 tempFiles, validationResult, isEncrypted, finalText, pdfParts,
                 extractionMethod, processingResults, stageLog, unhandled>>

\* validatePdf(filePath), whose result the handler logs
Validate ==
  /\ pc = "handler"
  /\ file.present
  /\ \E load \in LoadOutcomes :
       validationResult' = ValidatePdf(FilePath \in storage, file, load)
  /\ pc' = "encrypted"
  /\ UNCHANGED <<sumVars, rdVars>>
  /\ UNCHANGED <<route, isVercel, file, unlinkFails, uploadError, storage,
                 tempFiles, isEncrypted, finalText, pdfParts, extractionMethod,
                 processingResults, stageLog, responses, unhandled>>

\* isEncrypted = await isPdfEncrypted(filePath), and the first stage it and
\* the handler select
CheckEncrypted ==
  /\ pc = "encrypted"
  /\ isEncrypted' = file.encrypted
  /\ pc' = IF route = "api"
             THEN IF file.encrypted THEN "api_ocr" ELSE "api_split"
           ELSE IF route = "estrategias" THEN "strat_direct"
           ELSE "tent_direct"
  /\ UNCHANGED <<sumVars, rdVars>>
  /\ UNCHANGED <<route, isVercel, file, unlinkFails, uploadError, storage,
                 tempFiles, validationResult, finalText, pdfParts,
                 extractionMethod, processingResults, stageLog, responses,
                 unhandled>>

\* splitPDF(pdfBuffer): the buffer itself as the only part when it is under
\* 1MB or has few pages, its parts otherwise; never no part
SplitCounts(f) == IF f.size < BytesPerMB THEN {1} ELSE 1..MaxParts

(***************************************************************************)
(* app.post('/api/upload')                                                 *)
(***************************************************************************)
\* if (isEncrypted): processOcr first; its text ends the request with the
\* summaries, the cleanup and the response
ApiOcr ==
  /\ pc = "api_ocr"
  /\ \E r \in OcrOutcomes :
       IF HasText(r)
         THEN /\ finalText' = r
              /\ extractionMethod' = "ocr_api"
              /\ stageLog' = Append(stageLog, Stage("ocr_api", TRUE))
              /\ storage' = Cleanup(storage, tempFiles, FilePath)
              /\ responses' = Append(responses,
                                     Response(200, "ocr_api", processingResults))
              /\ pc' = "done"
              /\ UNCHANGED processingResults
         ELSE /\ processingResults' = Append(processingResults, Attempt("ocr_api"))
              /\ stageLog' = Append(stageLog, Stage("ocr_api", FALSE))
              /\ pc' = "api_decrypt"
              /\ UNCHANGED <<finalText, extractionMethod, storage, responses>>
  /\ UNCHANGED <<sumVars, rdVars>>
  /\ UNCHANGED <<route, isVercel, file, unlinkFails, uploadError, tempFiles,
                 validationResult, isEncrypted, pdfParts, unhandled>>

\* if (isEncrypted && !finalText): attemptPdfDecryption
ApiDecrypt ==
  /\ pc = "api_decrypt"
  /\ \E r \in ToolOutcomes :
       CASE r = "success" ->
              /\ storage' = storage \cup {DecryptedPath}
              /\ tempFiles' = Append(tempFiles, DecryptedPath)
              /\ extractionMethod' = "desprotegido"
              /\ \E n \in 1..MaxParts : pdfParts' = n
              /\ stageLog' = Append(stageLog, Stage("desproteger", TRUE))
              /\ pc' = "api_extract"
              /\ UNCHANGED processingResults
         [] r = "fail" ->
              /\ processingResults' = Append(processingResults, Attempt("desproteger"))
              /\ stageLog' = Append(stageLog, Stage("desproteger", FALSE))
              /\ pc' = "api_repair"
              /\ UNCHANGED <<storage, tempFiles, extractionMethod, pdfParts>>
         [] r = "raise" ->
              /\ stageLog' = Append(stageLog, Stage("desproteger", FALSE))
              /\ pc' = "api_catch"
              /\ UNCHANGED <<storage, tempFiles, extractionMethod, pdfParts,
                             processingResults>>
  /\ UNCHANGED <<sumVars, rdVars>>
  /\ UNCHANGED <<route, isVercel, file, unlinkFails, uploadError,
                 validationResult, isEncrypted, finalText, responses, unhandled>>

\* repairPdf after a failed decryption; when it fails too the original
\* buffer is split and nothing is pushed to processingResults
ApiRepair ==
  /\ pc = "api_repair"
  /\ \E r \in ToolOutcomes :
       CASE r = "success" ->
              /\ storage' = storage \cup {RepairedPath}
              /\ tempFiles' = Append(tempFiles, RepairedPath)
              /\ extractionMethod' = "reparado"
              /\ \E n \in 1..MaxParts : pdfParts' = n
              /\ stageLog' = Append(stageLog, Stage("reparar", TRUE))
              /\ pc' = "api_extract"
         [] r = "fail" ->
              /\ \E n \in SplitCounts(file) : pdfParts' = n
              /\ stageLog' = Append(stageLog, Stage("reparar", FALSE))
              /\ pc' = "api_extract"
              /\ UNCHANGED <<storage, tempFiles, extractionMethod>>
         [] r = "raise" ->
              /\ stageLog' = Append(stageLog, Stage("reparar", FALSE))
              /\ pc' = "api_catch"
              /\ UNCHANGED <<storage, tempFiles, extractionMethod, pdfParts>>
  /\ UNCHANGED <<sumVars, rdVars>>
  /\ UNCHANGED <<route, isVercel, file, unlinkFails, uploadError,
                 validationResult, isEncrypted, finalText, processingResults,
                 responses, unhandled>>

\* else if (!isEncrypted): pdfParts = await splitPDF(pdfBuffer)
ApiSplit ==
  /\ pc = "api_split"
  /\ \E n \in SplitCounts(file) : pdfParts' = n
  /\ pc' = "api_extract"
  /\ UNCHANGED <<sumVars, rdVars>>
  /\ UNCHANGED <<route, isVercel, file, unlinkFails, uploadError, storage,
                 tempFiles, validationResult, isEncrypted, finalText,
                 extractionMethod, processingResults, stageLog, responses,
                 unhandled>>

\* if (!finalText): parsePdf(pdfParts[0]), the patient name, the per-part
\* loop, removeDuplicates, the cleanup and res.json; an exception of the
\* first parsePdf reaches the catch of the processing block
ApiExtract ==
  /\ pc = "api_extract"
  /\ finalText = "null"
  /\ \E r \in ParseOutcomes(file) :
       IF r = "raise"
         THEN /\ pc' = "api_catch"
              /\ UNCHANGED <<extractionMethod, storage, responses>>
         ELSE /\ extractionMethod' =
                   IF pdfParts = 0 /\ extractionMethod = "normal"
                     THEN "falha_divisao" ELSE extractionMethod
              /\ storage' = Cleanup(storage, tempFiles, FilePath)
              /\ responses' = Append(responses,
                                     Response(200, extractionMethod',
                                              processingResults))
              /\ pc' = "done"
  /\ UNCHANGED <<sumVars, rdVars>>
  /\ UNCHANGED <<route, isVercel, file, unlinkFails, uploadError, tempFiles,
                 validationResult, isEncrypted, finalText, pdfParts,
                 processingResults, stageLog, unhandled>>

\* catch (processingError): the cleanup, then res.status(500).json twice;
\* the second raises, and so does the one of the outer catch it lands in
ApiCatch ==
  /\ pc = "api_catch"
  /\ storage' = Cleanup(storage, tempFiles, FilePath)
  /\ responses' = IF CanSend THEN Append(responses, Response(500, "none", <<>>))
                  ELSE responses
  /\ unhandled' = TRUE
  /\ pc' = "done"
  /\ UNCHANGED <<sumVars, rdVars>>
  /\ UNCHANGED <<route, isVercel, file, unlinkFails, uploadError, tempFiles,
                 validationResult, isEncrypted, finalText, pdfParts,
                 extractionMethod, processingResults, stageLog>>

(***************************************************************************)
(* The stages the two routers share.                                       *)
(***************************************************************************)
\* a direct stage: parsePdf(filePath); text is accepted, an exception is
\* pushed to processingResults, pages without text are neither
DirectStage(nextPc) ==
  /\ \E q \in ParseOutcomes(file) :
       IF HasText(q)
         THEN /\ finalText' = q
              /\ extractionMethod' = "direto"
              /\ stageLog' = Append(stageLog, Stage("direto", TRUE))
              /\ UNCHANGED processingResults
         ELSE /\ stageLog' = Append(stageLog, Stage("direto", FALSE))
              /\ processingResults' =
                   IF q = "raise" THEN Append(processingResults, Attempt("direto"))
                   ELSE processingResults
              /\ UNCHANGED <<finalText, extractionMethod>>
  /\ pc' = nextPc
  /\ UNCHANGED <<storage, tempFiles>>

\* a stage that derives a file and parses it: attemptPdfDecryption, repairPdf
\* or tryRepairWithGhostscript, tempFiles.push of the derived path, parsePdf
\* of it.  A failed or raising tool and a raising parsePdf are pushed to
\* processingResults; a derived file whose pages have no text is not
FileStage(method, accepted, derived, nextPc) ==
  /\ \E r \in ToolOutcomes :
       IF r = "success"
         THEN /\ storage' = storage \cup {derived}
              /\ tempFiles' = Append(tempFiles, derived)
              /\ \E q \in ParseOutcomes(file) :
                   IF HasText(q)
                     THEN /\ finalText' = q
                          /\ extractionMethod' = accepted
                          /\ stageLog' = Append(stageLog, Stage(method, TRUE))
                          /\ UNCHANGED processingResults
                     ELSE /\ stageLog' = Append(stageLog, Stage(method, FALSE))
                          /\ processingResults' =
                               IF q = "raise"
                                 THEN Append(processingResults, Attempt(method))
                                 ELSE processingResults
                          /\ UNCHANGED <<finalText, extractionMethod>>
         ELSE /\ processingResults' = Append(processingResults, Attempt(method))
              /\ stageLog' = Append(stageLog, Stage(method, FALSE))
              /\ UNCHANGED <<storage, tempFiles, finalText, extractionMethod>>
  /\ pc' = nextPc

\* a stage whose condition is false
SkipStage(nextPc) ==
  /\ pc' = nextPc
  /\ UNCHANGED <<storage, tempFiles, finalText, extractionMethod,
                 processingResults, stageLog>>

\* if (!finalText): the error page and extractionMethod = 'falha'; then the
\* summaries, cleanupResources and res.json.  An exception on the way
\* reaches the catch of the processing block.  The attempts travel as
\* processingDetails, and as errorDetails.attempts (set on 'falha' only) in
\* the router of TENTATIVA 1 to 5
FinishStage(catchPc) ==
  /\ finalText' = IF finalText = "null" THEN "falha" ELSE finalText
  /\ extractionMethod' = IF finalText = "null" THEN "falha" ELSE extractionMethod
  /\ \E raised \in BOOLEAN :
       IF raised
         THEN /\ stageLog' = Append(stageLog, Stage("summaries", FALSE))
              /\ pc' = catchPc
              /\ UNCHANGED <<storage, responses>>
         ELSE /\ storage' = Cleanup(storage, tempFiles, FilePath)
              /\ responses' =
                   Append(responses,
                          Response(200, extractionMethod',
                                   IF route = "tentativas" /\ finalText # "null"
                                     THEN <<>> ELSE processingResults))
              /\ pc' = "done"
              /\ UNCHANGED stageLog
  /\ UNCHANGED <<sumVars, rdVars>>
  /\ UNCHANGED <<route, isVercel, file, unlinkFails, uploadError, tempFiles,
                 validationResult, isEncrypted, pdfParts, processingResults,
                 unhandled>>

\* catch (processingError): cleanupResources and res.status(500).json
CatchStage ==
  /\ storage' = Cleanup(storage, tempFiles, FilePath)
  /\ responses' = IF CanSend THEN Append(responses, Response(500, "none", <<>>))
                  ELSE responses
  /\ pc' = "done"
  /\ UNCHANGED <<sumVars, rdVars>>
  /\ UNCHANGED <<route, isVercel, file, unlinkFails, uploadError, tempFiles,
                 validationResult, isEncrypted, finalText, pdfParts,
                 extractionMethod, processingResults, stageLog, unhandled>>

(***************************************************************************)
(* router.post('/upload') of ESTRATEGIA 1 to 4                             *)
(***************************************************************************)
\* ESTRATEGIA 1: if (fileSizeKB <= 1000 && !isEncrypted)
StratDirect ==
  /\ pc = "strat_direct"
  /\ IF FileSizeKB(file) <= DirectMaxKB /\ ~isEncrypted
       THEN DirectStage("strat_decrypt")
       ELSE SkipStage("strat_decrypt")
  /\ UNCHANGED <<sumVars, rdVars>>
  /\ UNCHANGED <<route, isVercel, file, unlinkFails, uploadError,
                 validationResult, isEncrypted, pdfParts, responses, unhandled>>

\* ESTRATEGIA 2: if (!finalText && isEncrypted)
StratDecrypt ==
  /\ pc = "strat_decrypt"
  /\ IF finalText = "null" /\ isEncrypted
       THEN FileStage("desproteger", "desprotegido", DecryptedPath, "strat_ocr")
       ELSE SkipStage("strat_ocr")
  /\ UNCHANGED <<sumVars, rdVars>>
  /\ UNCHANGED <<route, isVercel, file, unlinkFails, uploadError,
                 validationResult, isEncrypted, pdfParts, responses, unhandled>>

\* ESTRATEGIA 3: if (!finalText) processOcr(filePath)
StratOcr ==
  /\ pc = "strat_ocr"
  /\ IF finalText = "null"
       THEN /\ \E r \in OcrOutcomes :
                 IF HasText(r)
                   THEN /\ finalText' = r
                        /\ extractionMethod' = "ocr"
                        /\ stageLog' = Append(stageLog, Stage("ocr", TRUE))
                        /\ UNCHANGED processingResults
                   ELSE /\ processingResults' =
                             Append(processingResults, Attempt("ocr"))
                        /\ stageLog' = Append(stageLog, Stage("ocr", FALSE))
                        /\ UNCHANGED <<finalText, extractionMethod>>
            /\ pc' = "strat_repair"
            /\ UNCHANGED <<storage, tempFiles>>
       ELSE SkipStage("strat_repair")
  /\ UNCHANGED <<sumVars, rdVars>>
  /\ UNCHANGED <<route, isVercel, file, unlinkFails, uploadError,
                 validationResult, isEncrypted, pdfParts, responses, unhandled>>

\* ESTRATEGIA 4: if (!finalText) repairPdf(filePath)
StratRepair ==
  /\ pc = "strat_repair"
  /\ IF finalText = "null"
       THEN FileStage("reparar", "reparado", RepairedPath, "strat_finish")
       ELSE SkipStage("strat_finish")
  /\ UNCHANGED <<sumVars, rdVars>>
  /\ UNCHANGED <<route, isVercel, file, unlinkFails, uploadError,
                 validationResult, isEncrypted, pdfParts, responses, unhandled>>

StratFinish ==
  /\ pc = "strat_finish"
  /\ FinishStage("strat_catch")

StratCatch ==
  /\ pc = "strat_catch"
  /\ CatchStage

(***************************************************************************)
(* router.post('/upload') of TENTATIVA 1 to 5                              *)
(***************************************************************************)
\* TENTATIVA 1: parsePdf(filePath)
TentDirect ==
  /\ pc = "tent_direct"
  /\ DirectStage("tent_decrypt")
  /\ UNCHANGED <<sumVars, rdVars>>
  /\ UNCHANGED <<route, isVercel, file, unlinkFails, uploadError,
                 validationResult, isEncrypted, pdfParts, responses, unhandled>>

\* TENTATIVA 2: if (!finalText && isEncrypted)
TentDecrypt ==
  /\ pc = "tent_decrypt"
  /\ IF finalText = "null" /\ isEncrypted
       THEN FileStage("desproteger", "desprotegido", DecryptedPath, "tent_repair")
       ELSE SkipStage("tent_repair")
  /\ UNCHANGED <<sumVars, rdVars>>
  /\ UNCHANGED <<route, isVercel, file, unlinkFails, uploadError,
                 validationResult, isEncrypted, pdfParts, responses, unhandled>>

\* TENTATIVA 3: if (!finalText) repairPdf(filePath)
TentRepair ==
  /\ pc = "tent_repair"
  /\ IF finalText = "null"
       THEN FileStage("reparar", "reparado", RepairedPath, "tent_ghostscript")
       ELSE SkipStage("tent_ghostscript")
  /\ UNCHANGED <<sumVars, rdVars>>
  /\ UNCHANGED <<route, isVercel, file, unlinkFails, uploadError,
                 validationResult, isEncrypted, pdfParts, responses, unhandled>>

\* TENTATIVA 4: if (!finalText && !isVercel) tryRepairWithGhostscript(filePath)
TentGhostscript ==
  /\ pc = "tent_ghostscript"
  /\ IF finalText = "null" /\ ~isVercel
       THEN FileStage("ghostscript", "gs_reparado", GsRepairedPath, "tent_split")
       ELSE SkipStage("tent_split")
  /\ UNCHANGED <<sumVars, rdVars>>
  /\ UNCHANGED <<route, isVercel, file, unlinkFails, uploadError,
                 validationResult, isEncrypted, pdfParts, responses, unhandled>>

\* TENTATIVA 5: if (!finalText) splitPDF, every part written to
\* `${filePath}_part_${i + 1}.pdf` and pushed to tempFiles, parsePdf of every
\* part; the pages of the parts that parsed are accepted, text or not
TentSplit ==
  /\ pc = "tent_split"
  /\ IF finalText = "null"
       THEN \E n \in SplitCounts(file) :
            \E outs \in [1..n -> ParseOutcomes(file)] :
              /\ pdfParts' = n
              /\ storage' = storage \cup { PartPath(i) : i \in 1..n }
              /\ tempFiles' = tempFiles \o [i \in 1..n |-> PartPath(i)]
              /\ IF \E i \in 1..n : outs[i] # "raise"
                   THEN /\ finalText' = "partes"
                        /\ extractionMethod' = "partes"
                        /\ stageLog' = Append(stageLog, Stage("partes", TRUE))
                        /\ UNCHANGED processingResults
                   ELSE /\ processingResults' =
                             Append(processingResults, Attempt("partes"))
                        /\ stageLog' = Append(stageLog, Stage("partes", FALSE))
                        /\ UNCHANGED <<finalText, extractionMethod>>
              /\ pc' = "tent_finish"
       ELSE SkipStage("tent_finish") /\ UNCHANGED pdfParts
  /\ UNCHANGED <<sumVars, rdVars>>
  /\ UNCHANGED <<route, isVercel, file, unlinkFails, uploadError,
                 validationResult, isEncrypted, responses, unhandled>>

TentFinish ==
  /\ pc = "tent_finish"
  /\ FinishStage("tent_catch")

TentCatch ==
  /\ pc = "tent_catch"
  /\ CatchStage

Next ==
  \/ Upload
  \/ HandlerNoFile
  \/ Validate
  \/ CheckEncrypted
  \/ ApiOcr
  \/ ApiDecrypt
  \/ ApiRepair
  \/ ApiSplit
  \/ ApiExtract
  \/ ApiCatch
  \/ StratDirect
  \/ StratDecrypt
  \/ StratOcr
  \/ StratRepair
  \/ StratFinish
  \/ StratCatch
  \/ TentDirect
  \/ TentDecrypt
  \/ TentRepair
  \/ TentGhostscript
  \/ TentSplit
  \/ TentFinish
  \/ TentCatch

Spec == Init /\ [][Next]_vars

(***************************************************************************)
(* What the request is held against.                                       *)
(***************************************************************************)
\* the handler took the upload and the request has completed
Completed == pc = "done" /\ file.present /\ uploadError = "none"

\* the paths the handler owes a removal: tempFiles and the uploaded original
OwedPaths == Range(tempFiles) \cup {FilePath}

\* C1 as stated: on every exit path of a request whose processing started,
\* every path pushed to tempFiles and the uploaded original no longer exist
\* when the request completes.
C1_AllOwedPathsGone ==
  Completed => \A path \in OwedPaths : path \notin storage

\* C1: on every exit path of a request whose processing started, every path
\* pushed to tempFiles and the uploaded original no longer exist when the
\* request completes, except a path whose fs.unlinkSync raised, which the
\* cleanup logs and leaves.
C1_OwedPathsGoneUnlessUnlinkRaised ==
  Completed => \A path \in OwedPaths : path \notin storage \/ path \in unlinkFails

\* a completed request that pushed at least two paths, one of which could
\* not be unlinked and is all that is left
C1_Witness ==
  /\ Completed
  /\ Len(tempFiles) >= 2
  /\ unlinkFails # {}
  /\ storage = unlinkFails
  /\ unlinkFails \subseteq Range(tempFiles)

\* the recovery stages of the log, the summaries step left out
RECURSIVE RecoveryStages(_)
RecoveryStages(log) ==
  IF log = <<>> THEN <<>>
  ELSE IF Head(log).stage = "summaries" THEN RecoveryStages(Tail(log))
  ELSE <<Head(log)>> \o RecoveryStages(Tail(log))

\* the methods of the stages that did not yield accepted text, in order
RECURSIVE FailedMethods(_)
FailedMethods(log) ==
  IF log = <<>> THEN <<>>
  ELSE IF Head(log).accepted THEN FailedMethods(Tail(log))
  ELSE <<Head(log).stage>> \o FailedMethods(Tail(log))

\* a success response was sent
Succeeded == Completed /\ responses # <<>> /\ responses[1].status = 200

\* C6: when the pipeline has ended, at a stage or at total failure, no stage
\* after the accepted one was attempted and processingResults holds exactly
\* one failed attempt for every stage attempted without yielding accepted
\* text.
C6_OneFailedAttemptPerFailedStage ==
  Succeeded =>
    LET stages == RecoveryStages(stageLog) IN
    /\ \A i \in 1..Len(stages) : stages[i].accepted => i = Len(stages)
    /\ [i \in 1..Len(processingResults) |-> processingResults[i].method]
         = FailedMethods(stages)

\* every recovery stage that ran failed, and nothing else went wrong
AllStagesFailed ==
  /\ Completed
  /\ stageLog # <<>>
  /\ \A i \in 1..Len(stageLog) :
       ~stageLog[i].accepted /\ stageLog[i].stage # "summaries"

\* C7: a request all of whose recovery stages fail gets one success response
\* with extractionMethod 'falha' and non-empty processing details.
C7_TotalFailureIsStructuredResponse ==
  AllStagesFailed =>
    /\ Len(responses) = 1
    /\ responses[1].status = 200
    /\ responses[1].extractionMethod = "falha"
    /\ responses[1].processingDetails # <<>>

ExtractionMethods ==
  {"direto", "desprotegido", "reparado", "gs_reparado", "partes", "ocr",
   "ocr_api", "falha"}

\* C8: the extractionMethod of a success response is one of the eight
\* enumerated values, and not 'falha' when the document has a valid
\* signature and an extractable page.
C8_ExtractionMethodEnumerated ==
  \A i \in 1..Len(responses) :
    responses[i].status = 200 =>
      /\ responses[i].extractionMethod \in ExtractionMethods
      /\ (file.signature = PdfSignature /\ file.extractable)
           => responses[i].extractionMethod # "falha"

\* C9: a file larger than 50MB is rejected for its size, validatePdf answers
\* invalid with the size message for it, and no recovery stage runs on it.
C9_OversizeRejectedBeforeStages ==
  (file.present /\ file.size > MaxPdfMB * BytesPerMB) =>
    /\ \A load \in LoadOutcomes :
         ValidatePdf(TRUE, file, load)
           = [valid |-> FALSE,
              message |-> "O arquivo PDF e muito grande (maximo 50MB)"]
    /\ stageLog = <<>>
    /\ processingResults = <<>>
    /\ tempFiles = <<>>
    /\ storage = {}
    /\ (pc = "done" /\ file.mimetype = PdfMime) => uploadError = "LIMIT_FILE_SIZE"

\* an oversize pdf upload was rejected
C9_Witness ==
  /\ pc = "done"
  /\ file.present
  /\ file.mimetype = PdfMime
  /\ file.size > MaxPdfMB * BytesPerMB
  /\ uploadError = "LIMIT_FILE_SIZE"
  /\ responses = <<>>

\* C10: once validatePdf has answered invalid for the '%PDF-' signature, no
\* recovery stage runs, processingResults stays empty and no temporary file
\* is created.
C10_BadSignatureStopsThePipeline ==
  (validationResult.message = "O arquivo nao e um PDF valido") =>
    /\ stageLog = <<>>
    /\ processingResults = <<>>
    /\ tempFiles = <<>>
    /\ storage \subseteq {FilePath}

(***************************************************************************)
(* isPdfEncrypted and detectProtectionType on their own.  There are two    *)
(* versions of each: "utils" is utils/pdfDecryptor.js, "buffer" the one    *)
(* that also takes a Buffer and checks the header first.                   *)
(***************************************************************************)
MaxTokens == 3  \* pieces the content of a document is put together from

ContentWindow == 20000  \* slice(0, 20000)

\* String.prototype.slice(0, n)
SliceTo(t, n) == SubSeq(t, 1, IF Len(t) < n THEN Len(t) ELSE n)

\* sub stands in t at position i
StartsAt(t, sub, i) ==
  /\ i + Len(sub) - 1 <= Len(t)
  /\ SubSeq(t, i, i + Len(sub) - 1) = sub

\* String.prototype.includes
Includes(t, sub) == \E i \in 1..Len(t) : StartsAt(t, sub, i)

\* the first position from i on whose character is no white space, Len + 1
\* when there is none
RECURSIVE SkipSpaces(_, _)
SkipSpaces(t, i) ==
  IF i <= Len(t) /\ IsSpace(t[i]) THEN SkipSpaces(t, i + 1) ELSE i

\* the first position from i on whose character is no digit
RECURSIVE SkipDigits(_, _)
SkipDigits(t, i) ==
  IF i <= Len(t) /\ t[i] \in Digits THEN SkipDigits(t, i + 1) ELSE i

\* /\/P\s+(-?\d+)/ matches at position i
PMatchAt(t, i) ==
  /\ StartsAt(t, <<"/", "P">>, i)
  /\ LET j == SkipSpaces(t, i + 2) IN
     /\ j > i + 2
     /\ j <= Len(t)
     /\ \/ t[j] \in Digits
        \/ t[j] = "-" /\ j + 1 <= Len(t) /\ t[j + 1] \in Digits

\* content.match(/\/P\s+(-?\d+)/) finds a match
HasPMatch(t) == \E i \in 1..Len(t) : PMatchAt(t, i)

\* pMatch[1]: the group of the leftmost match
PMatchGroup(t) ==
  LET i == CHOOSE k \in 1..Len(t) :
             PMatchAt(t, k) /\ \A m \in 1..(k - 1) : ~PMatchAt(t, m)
      j == SkipSpaces(t, i + 2)
      first == IF t[j] = "-" THEN j + 1 ELSE j
  IN SubSeq(t, j, SkipDigits(t, first) - 1)

DigitChars == <<"0","1","2","3","4","5","6","7","8","9">>

DigitValue(c) == (CHOOSE n \in 1..10 : DigitChars[n] = c) - 1

RECURSIVE DecimalValue(_)
DecimalValue(ds) ==
  IF ds = <<>> THEN 0
  ELSE 10 * DecimalValue(SubSeq(ds, 1, Len(ds) - 1)) + DigitValue(ds[Len(ds)])

\* parseInt of an optional '-' and decimal digits
ParseInt(t) ==
  IF Head(t) = "-" THEN 0 - DecimalValue(Tail(t)) ELSE DecimalValue(t)

\* (value & bit) !== 0, bit a power of two: two's complement, so the low
\* bits of a negative value are those of its residue
BitSet(value, bit) == ((value % (2 * bit)) \div bit) = 1

\* encryptionMarkers
EncryptionMarkers ==
  << <<"/","E","n","c","r","y","p","t">>,
     <<"/","S","t","a","n","d","a","r","d">>,
     <<"/","S","t","d","C","F">>,
     <<"/","C","r","y","p","t">>,
     <<"/","E","n","c","r","y","p","t","M","e","t","a","d","a","t","a">>,
     <<"/","R"," ">>,
     <<"/","O"," ">>,
     <<"/","U"," ">>,
     <<"/","P"," ">> >>

MinEncryptionScore == 3  \* encryptionScore >= 3

\* encryptionScore: the markers the content includes
EncryptionScore(content) ==
  Cardinality({ k \in 1..Len(EncryptionMarkers) :
                  Includes(content, EncryptionMarkers[k]) })

\* what PDFDocument.load(pdfBytes, {updateMetadata: false}) does: a document
\* with isEncrypted false or true, an error whose message mentions the
\* encryption, another error
LibOutcomes == {"plain", "encrypted", "error_encrypted", "error_other"}

MarkEncrypt == <<"/","E","n","c","r","y","p","t">>

MarkStandard == <<"/","S","t","a","n","d","a","r","d">>

MarkP == <<"/","P"," ">>

MarkR == <<"/","R"," ">>

PdfHeader == <<"%","P","D","F">>

\* isPdfEncrypted taking any /P entry for a restriction
EncryptedByAnyP(content, lib) ==
  IF HasPMatch(content) THEN TRUE
  ELSE IF EncryptionScore(content) >= MinEncryptionScore THEN TRUE
  ELSE lib \in {"encrypted", "error_encrypted"}

\* the checks of isPdfEncrypted after the content is read: the permission
\* value, the marker score, then pdf-lib and the manual check of its catch
EncryptedByContent(content, lib) ==
  IF HasPMatch(content) /\ ParseInt(PMatchGroup(content)) < 0 THEN TRUE
  ELSE IF EncryptionScore(content) >= MinEncryptionScore THEN TRUE
  ELSE IF lib = "plain" THEN FALSE
  ELSE IF lib = "encrypted" THEN TRUE
  ELSE IF lib = "error_encrypted" THEN TRUE
  ELSE \/ Includes(content, MarkEncrypt)
       \/ Includes(content, MarkStandard)
       \/ Includes(content, MarkP) /\ Includes(content, MarkR)

\* isPdfEncrypted(pdfInput) for the bytes of an existing file
IsPdfEncrypted(version, bytes, lib) ==
  LET content == SliceTo(bytes, ContentWindow) IN
  IF version = "buffer" /\ SliceTo(bytes, 4) # PdfHeader THEN FALSE
  ELSE EncryptedByContent(content, lib)

\* permissions: the eight flags decoded from the /P value
Permissions(permissionValue) ==
  [allowPrint |-> BitSet(permissionValue, 4),
   allowModify |-> BitSet(permissionValue, 8),
   allowCopy |-> BitSet(permissionValue, 16),
   allowAnnotations |-> BitSet(permissionValue, 32),
   allowForms |-> BitSet(permissionValue, 256),
   allowAccessibility |-> BitSet(permissionValue, 512),
   allowAssemble |-> BitSet(permissionValue, 1024),
   allowHighQualityPrint |-> BitSet(permissionValue, 2048)]

\* a pattern that asks for every capability but print to be denied
PrintOnlyPattern(perm) ==
  /\ perm.allowPrint
  /\ ~perm.allowCopy
  /\ ~perm.allowModify
  /\ ~perm.allowAnnotations
  /\ ~perm.allowForms
  /\ ~perm.allowAccessibility
  /\ ~perm.allowAssemble

\* laboratoryReportPattern
LaboratoryReportPattern(perm) ==
  /\ perm.allowPrint
  /\ ~perm.allowCopy
  /\ ~perm.allowModify
  /\ ~perm.allowAnnotations
  /\ ~perm.allowForms

\* restrictionCount: Object.values(permissions).filter(perm => !perm).length
RestrictionCount(perm) == Cardinality({k \in DOMAIN perm : ~perm[k]})

\* detectProtectionType: permissionValue, the permissions decoded from it,
\* protectionLevel and isLaboratoryReport
DetectProtectionType(bytes) ==
  LET content == SliceTo(bytes, ContentWindow)
      permissionValue ==
        IF HasPMatch(content) THEN ParseInt(PMatchGroup(content)) ELSE 0
      perm == Permissions(permissionValue)
  IN [permissionValue |-> permissionValue,
      allowPrint |-> perm.allowPrint,
      allowModify |-> perm.allowModify,
      allowCopy |-> perm.allowCopy,
      allowAnnotations |-> perm.allowAnnotations,
      allowForms |-> perm.allowForms,
      allowAccessibility |-> perm.allowAccessibility,
      allowAssemble |-> perm.allowAssemble,
      allowHighQualityPrint |-> perm.allowHighQualityPrint,
      protectionLevel |-> RestrictionCount(perm),
      isLaboratoryReport |-> LaboratoryReportPattern(perm)]

TokHeader == <<"%","P","D","F","-","1",".","4","\n">>

TokNegativeP == <<"/","P"," ","-","3","8","4","4","\n">>

TokPrintP == <<"/","P"," ","4","\n">>

TokPageRef == <<"/","P"," ","1","2"," ","0"," ","R","\n">>

TokEncrypt == <<"/","E","n","c","r","y","p","t"," ","9"," ","0"," ","R","\n">>

TokRevision == <<"/","R"," ","3","\n">>

TokObject == <<"1"," ","0"," ","o","b","j","\n">>

\* pieces of a document: the header, permission entries, a page reference
\* of an annotation, encryption entries, an object
TokenPool == {TokHeader, TokNegativeP, TokPrintP, TokPageRef, TokEncrypt, TokRevision, TokObject}

RECURSIVE Concat(_)
Concat(pieces) ==
  IF pieces = <<>> THEN <<>> ELSE Head(pieces) \o Concat(Tail(pieces))

\* the documents checked: up to MaxTokens pieces in any order
Documents ==
  { Concat(pieces) : pieces \in UNION { [1..n -> TokenPool] : n \in 0..MaxTokens } }

EncInit ==
  /\ SumIdle
  /\ ConcIdle
  /\ ReqIdle
  /\ rdIn = <<>>
  /\ rdOut = <<>>
  /\ callIn \in [ fn : {"encryption"}, version : {"utils", "buffer"},
                  bytes : Documents, lib : LibOutcomes ]
  /\ callOut = <<>>

\* isEncrypted = await isPdfEncrypted(filePath)
IsPdfEncryptedCall ==
  /\ callIn # <<>>
  /\ callIn.fn = "encryption"
  /\ callOut = <<>>
  /\ callOut' = <<IsPdfEncrypted(callIn.version, callIn.bytes, callIn.lib)>>
  /\ UNCHANGED <<callIn, concVars, rdIn, rdOut, sumVars, reqVars>>

\* protectionInfo = await detectProtectionType(filePath)
DetectProtectionTypeCall ==
  /\ callIn # <<>>
  /\ callIn.fn = "encryption"
  /\ Len(callOut) = 1
  /\ callOut' = Append(callOut, DetectProtectionType(callIn.bytes))
  /\ UNCHANGED <<callIn, concVars, rdIn, rdOut, sumVars, reqVars>>

EncNext ==
  \/ IsPdfEncryptedCall
  \/ DetectProtectionTypeCall

SpecEnc == EncInit /\ [][EncNext]_vars

\* the content holds a /P entry with a negative integer somewhere
HasNegativeP(t) ==
  \E i \in 1..Len(t) :
    /\ PMatchAt(t, i)
    /\ t[SkipSpaces(t, i + 2)] = "-"

\* C11: for every input whose first 20,000 bytes contain a /P entry with a
\* negative integer, isPdfEncrypted returns true, whatever else it contains.
C11_NegativePermissionIsEncrypted ==
  (Len(callOut) >= 1 /\ HasNegativeP(SliceTo(callIn.bytes, ContentWindow)))
    => callOut[1] = TRUE

\* the only encryption marker of the content is a /P entry of value 4
OnlyPrintP(t) ==
  /\ HasPMatch(t)
  /\ \A i \in 1..Len(t) :
       PMatchAt(t, i) =>
         SubSeq(t, SkipSpaces(t, i + 2), SkipDigits(t, SkipSpaces(t, i + 2)) - 1)
           = <<"4">>
  /\ \A k \in 1..Len(EncryptionMarkers) :
       Includes(t, EncryptionMarkers[k]) => EncryptionMarkers[k] = MarkP

\* C12: for an input whose only encryption marker is '/P 4',
\* detectProtectionType decodes permissionValue 4 with allowPrint true, the
\* marker score of isPdfEncrypted stays below 3, and isPdfEncrypted returns
\* true only when the later load by pdf-lib says the document is encrypted.
C12_PrintPermissionAloneDecidedByLoad ==
  (callIn # <<>> /\ callIn.fn = "encryption"
     /\ OnlyPrintP(SliceTo(callIn.bytes, ContentWindow))) =>
    /\ EncryptionScore(SliceTo(callIn.bytes, ContentWindow)) < MinEncryptionScore
    /\ Len(callOut) >= 1 =>
         (callOut[1] = TRUE => callIn.lib \in {"encrypted", "error_encrypted"})
    /\ (Len(callOut) >= 1 /\ SliceTo(callIn.bytes, 4) = PdfHeader) =>
         (callOut[1] = TRUE <=> callIn.lib \in {"encrypted", "error_encrypted"})
    /\ Len(callOut) >= 2 =>
         /\ callOut[2].permissionValue = 4
         /\ callOut[2].allowPrint

\* both functions were called on a document with the header, a /P 4 entry
\* and nothing else of encryption, which pdf-lib loads as not encrypted
C12_Witness ==
  /\ Len(callOut) = 2
  /\ OnlyPrintP(callIn.bytes)
  /\ SliceTo(callIn.bytes, 4) = PdfHeader
  /\ callIn.lib = "plain"
  /\ callOut[1] = FALSE
  /\ callOut[2].allowPrint

\* ---------------------------------------------------------------------
\* Failure of one extraction call
\* ---------------------------------------------------------------------

\* a line the capability returned is represented in the merged result: the
\* line itself when it has no exam name, a line of its key otherwise
Represented(line, results) ==
  \E j \in 1..Len(results) :
    IF HasExamName(line)
      THEN HasExamName(results[j]) /\ ExamKey(results[j]) = ExamKey(line)
      ELSE results[j] = line

\* C13: when the extraction call fails for one chunk, only that chunk
\* contributes no lines: every line returned for another chunk of the same
\* page, or for another page, is still represented in the merged result of
\* generateSummaries.
C13_OnlyFailedChunkContributesNothing ==
  (sPc = "page" /\ sPagesLeft = 0) =>
    \A i \in 1..Len(extracted) :
      extracted[i].part = sPart => Represented(extracted[i].line, allResults)

\* ---------------------------------------------------------------------
\* Responses of a request
\* ---------------------------------------------------------------------

\* C14: a request that multer accepted has, once its handler is over, sent
\* exactly one response: never none, and never a second send, which the
\* response object answers by raising out of the handler.
C14_ExactlyOneResponse ==
  (pc = "done" /\ uploadError = "none") =>
    /\ Len(responses) = 1
    /\ ~unhandled

\* ---------------------------------------------------------------------
\* The patient name: extractPatientName and extractPatientNameViaOcr
\* ---------------------------------------------------------------------

NameWindow == 3000

MinNameLength == 3

MinAiNameLength == 4

DefaultName ==
  <<"N","o","m","e"," ","d","o"," ","P","a","c","i","e","n","t","e"," ","n",
    "ã","o"," ","i","d","e","n","t","i","f","i","c","a","d","o">>

Sentinel == <<"F","A","L","L","B","A","C","K","_","T","O","_","O","C","R">>

SpaceChars == {" ", "\t", "\r", NL}

\* some of the letters of the range À-Ú, which holds Ç too
AccentedUpper == {"À", "Á", "Â", "Ã", "Ç", "É", "Ê", "Í", "Ó", "Ô", "Õ", "Ú"}

AccentedLower == {"à", "á", "â", "ã", "ç", "é", "ê", "í", "ó", "ô", "õ", "ú"}

UpperSet == {UpperLetters[i] : i \in 1..26} \cup AccentedUpper

LowerSet == {LowerLetters[i] : i \in 1..26} \cup AccentedLower

\* [A-ZÀ-ÚÇ\s] under the i flag, and [A-ZÀ-ÚÇa-zà-úç\s]
NameChars == UpperSet \cup LowerSet \cup SpaceChars

\* the first position from i on whose character is not in cls
RECURSIVE RunEnd(_, _, _)
RunEnd(t, i, cls) ==
  IF i <= Len(t) /\ t[i] \in cls THEN RunEnd(t, i + 1, cls) ELSE i

PrefixPaciente == <<"P","a","c","i","e","n","t","e">>

PrefixNomeDoPaciente == <<"N","o","m","e"," ","d","o"," ","P","a","c","i","e","n","t","e">>

PrefixNome == <<"N","o","m","e">>

\* /prefix\s*[:]\s*([A-ZÀ-ÚÇ\s]+)/i at position i: the captured group
\* without the white space \s* may have taken from its front, <<>> when
\* there is no match at i
GroupInsensitiveAt(t, prefix, i) ==
  IF /\ i + Len(prefix) - 1 <= Len(t)
     /\ ToLowerCase(SubSeq(t, i, i + Len(prefix) - 1)) = ToLowerCase(prefix)
    THEN LET j == RunEnd(t, i + Len(prefix), SpaceChars) IN
         IF j <= Len(t) /\ t[j] = ":"
           THEN LET k == RunEnd(t, j + 1, SpaceChars)
                    e == RunEnd(t, j + 1, NameChars)
                IN IF e = j + 1 THEN <<>>
                   ELSE IF k = e THEN <<t[e - 1]>>
                   ELSE SubSeq(t, k, e - 1)
           ELSE <<>>
    ELSE <<>>

\* /prefix[:]?\s+([A-ZÀ-ÚÇ][A-ZÀ-ÚÇa-zà-úç\s]+)/ at position i
GroupSensitiveAt(t, prefix, i) ==
  IF StartsAt(t, prefix, i)
    THEN LET c == i + Len(prefix)
             j == IF c <= Len(t) /\ t[c] = ":" THEN c + 1 ELSE c
             k == RunEnd(t, j, SpaceChars)
         IN IF /\ k > j
               /\ k <= Len(t)
               /\ t[k] \in UpperSet
               /\ RunEnd(t, k + 1, NameChars) > k + 1
              THEN SubSeq(t, k, RunEnd(t, k + 1, NameChars) - 1)
              ELSE <<>>
    ELSE <<>>

\* regexPatterns, by position in the array
GroupAt(t, p, i) ==
  CASE p = 1 -> GroupInsensitiveAt(t, PrefixPaciente, i)
    [] p = 2 -> GroupInsensitiveAt(t, PrefixNomeDoPaciente, i)
    [] p = 3 -> GroupSensitiveAt(t, PrefixPaciente, i)
    [] p = 4 -> GroupSensitiveAt(t, PrefixNome, i)

\* text.match(pattern)[1] of the leftmost match, <<>> when match is null
MatchGroup(t, p) ==
  IF \E i \in 1..Len(t) : GroupAt(t, p, i) # <<>>
    THEN GroupAt(t, p, CHOOSE i \in 1..Len(t) :
                         /\ GroupAt(t, p, i) # <<>>
                         /\ \A h \in 1..(i - 1) : GroupAt(t, p, h) = <<>>)
    ELSE <<>>

\* extractedName.length > 3 && extractedName.includes(' ')
RegexNameAccepted(name) == Len(name) > MinNameLength /\ Includes(name, <<" ">>)

\* the for loop over regexPatterns: the first pattern whose trimmed group
\* is accepted
RECURSIVE RegexName(_, _)
RegexName(t, p) ==
  IF p > 4 THEN [found |-> FALSE, name |-> <<>>]
  ELSE IF RegexNameAccepted(Trim(MatchGroup(t, p)))
    THEN [found |-> TRUE, name |-> Trim(MatchGroup(t, p))]
  ELSE RegexName(t, p + 1)

\* how a call ends
Return(v) == [kind |-> "return", value |-> v]

Raise == [kind |-> "raise", value |-> <<>>]

\* a pages value: null, or an array of page texts (<<>> is a page without text)
NullPages == [null |-> TRUE, list |-> <<>>]

PagesOf(list) == [null |-> FALSE, list |-> list]

\* !pages || !pages.length || !pages[0].text
NoFirstText(pages) ==
  pages.null \/ Len(pages.list) = 0 \/ pages.list[1] = <<>>

\* the try block of extractPatientNameViaOcr
ViaOcrBody(ocr, ocrAi) ==
  IF ocr.kind = "raise" THEN Raise
  ELSE IF NoFirstText(ocr.value) THEN Raise
  ELSE LET r == RegexName(SliceTo(ocr.value.list[1], NameWindow), 1) IN
       IF r.found THEN Return(r.name)
       ELSE IF ocrAi.kind = "raise" THEN Raise
       ELSE Return(Trim(ocrAi.value))

\* extractPatientNameViaOcr: its catch returns the default
ExtractPatientNameViaOcr(ocr, ocrAi) ==
  IF ViaOcrBody(ocr, ocrAi).kind = "raise"
    THEN Return(DefaultName)
    ELSE ViaOcrBody(ocr, ocrAi)

\* the check of the answer on the text path
AiNameRejected(name) ==
  \/ name = Sentinel
  \/ name = DefaultName
  \/ Len(name) < MinAiNameLength
  \/ ~Includes(name, <<" ">>)

\* the try block of extractPatientName
NameBody(pages, ai, ocr, ocrAi) ==
  IF NoFirstText(pages) THEN ExtractPatientNameViaOcr(ocr, ocrAi)
  ELSE LET r == RegexName(SliceTo(pages.list[1], NameWindow), 1) IN
       IF r.found THEN Return(r.name)
       ELSE IF ai.kind = "raise" THEN Raise
       ELSE IF AiNameRejected(Trim(ai.value))
         THEN ExtractPatientNameViaOcr(ocr, ocrAi)
       ELSE Return(Trim(ai.value))

\* extractPatientName: its catch tries the OCR variant, and the catch of
\* that try returns the default
ExtractPatientName(pages, ai, ocr, ocrAi) ==
  IF NameBody(pages, ai, ocr, ocrAi).kind = "raise"
    THEN IF ExtractPatientNameViaOcr(ocr, ocrAi).kind = "raise"
           THEN Return(DefaultName)
           ELSE ExtractPatientNameViaOcr(ocr, ocrAi)
    ELSE NameBody(pages, ai, ocr, ocrAi)

\* first pages of documents
TextPacienteSilva == <<"P","a","c","i","e","n","t","e",":"," ","J","O","A","O"," ","S","I","L",
    "V","A",NL,"T","G","O">>

TextPacienteAna == <<"P","a","c","i","e","n","t","e",":"," ","A","N","A",NL,"1","2","/","0",
    "3">>

TextNomeLima == <<"N","o","m","e",":"," ","A","n","a"," ","L","i","m","a",","," ","4","0">>

TextNoName == <<"H","e","m","o","g","r","a","m","a"," ","4",",","5">>

FirstPageTexts == {TextPacienteSilva, TextPacienteAna, TextNomeLima, TextNoName}

\* the pages values handed to extractPatientName
PagesValues ==
  {NullPages, PagesOf(<<>>), PagesOf(<< <<>> >>)}
    \cup {PagesOf(<<t>>) : t \in FirstPageTexts}

\* answers of the AI capability
AnswerShort == <<"A","n","a">>

AnswerOneWord == <<"J","o","a","q","u","i","m">>

AnswerName == <<" ","A","n","a"," ","L","i","m","a",NL>>

AiAnswers == {Sentinel, DefaultName, AnswerShort, AnswerOneWord, AnswerName, <<>>}

AiOutcomes == {Raise} \cup {Return(a) : a \in AiAnswers}

\* what processOcr gives extractPatientNameViaOcr
OcrResults ==
  {Raise, Return(PagesOf(<<>>)), Return(PagesOf(<< <<>> >>))}
    \cup {Return(PagesOf(<<t>>)) : t \in {TextPacienteSilva, TextPacienteAna, TextNoName}}

NameInit ==
  /\ SumIdle
  /\ ConcIdle
  /\ ReqIdle
  /\ rdIn = <<>>
  /\ rdOut = <<>>
  /\ callIn \in [fn : {"extractPatientName"}, pages : PagesValues,
                 ai : AiOutcomes, ocr : OcrResults, ocrAi : AiOutcomes]
  /\ callOut = <<>>

\* patientName = await extractPatientName(pages, filePath)
ExtractPatientNameCall ==
  /\ callIn # <<>>
  /\ callIn.fn = "extractPatientName"
  /\ callOut = <<>>
  /\ callOut' = <<ExtractPatientName(callIn.pages, callIn.ai, callIn.ocr,
                                     callIn.ocrAi)>>
  /\ UNCHANGED <<callIn, concVars, rdIn, rdOut, sumVars, reqVars>>

NameNext == ExtractPatientNameCall

SpecName == NameInit /\ [][NameNext]_vars

\* an answer of the AI capability that counts as failure: the sentinel, or
\* shorter than 4 characters, or without a space
AnswerIsFailure(outcome) ==
  \/ outcome.kind = "raise"
  \/ Trim(outcome.value) = Sentinel
  \/ Len(Trim(outcome.value)) < MinAiNameLength
  \/ ~Includes(Trim(outcome.value), <<" ">>)

\* the regex step and the AI step both fail on a first page
TextStepsFail(pages, ai) ==
  \/ NoFirstText(pages)
  \/ /\ ~RegexName(SliceTo(pages.list[1], NameWindow), 1).found
     /\ AnswerIsFailure(ai)

\* every step of a call fails
AllStepsFail ==
  /\ TextStepsFail(callIn.pages, callIn.ai)
  /\ \/ callIn.ocr.kind = "raise"
     \/ TextStepsFail(callIn.ocr.value, callIn.ocrAi)

\* C15: extractPatientName never raises: for every pages value and every
\* failure of the regex, AI or OCR step it returns a string, and when all
\* steps fail that string is the default 'Nome do Paciente não identificado'.
C15_NeverRaisesAndDefaultsOnTotalFailure ==
  Len(callOut) = 1 =>
    /\ callOut[1].kind = "return"
    /\ AllStepsFail => callOut[1].value = DefaultName

\* C16: every value extractPatientName returns is the default string or a
\* name longer than 3 characters that contains a space, whichever path,
\* text or OCR fallback, produced it.
C16_ReturnedNameIsDefaultOrFullName ==
  (Len(callOut) = 1 /\ callOut[1].kind = "return") =>
    \/ callOut[1].value = DefaultName
    \/ /\ Len(callOut[1].value) > MinNameLength
       /\ Includes(callOut[1].value, <<" ">>)

\* ---------------------------------------------------------------------
\* Cleanup called on its own: cleanupTempFiles and cleanupResources
\* ---------------------------------------------------------------------

MaxListed == 3

MaxCleanupCalls == 2

\* the result of a statement: the storage it leaves, and whether it raised
Done(st) == [storage |-> st, raised |-> FALSE]

Thrown(st) == [storage |-> st, raised |-> TRUE]

\* fs.unlinkSync(path): raises when the file is missing or cannot be removed
UnlinkSync(st, path, fails) ==
  IF path \notin st \/ path \in fails THEN Thrown(st) ELSE Done(st \ {path})

\* if (fs.existsSync(path)) { fs.unlinkSync(path) }
RemoveIfExists(st, path, fails) ==
  IF path \in st THEN UnlinkSync(st, path, fails) ELSE Done(st)

\* the same statement without a try block around it
RemoveUnguarded(st, path, fails) == RemoveIfExists(st, path, fails)

\* try { if (fs.existsSync(path)) fs.unlinkSync(path) } catch { log }
RemoveGuarded(st, path, fails) == Done(RemoveIfExists(st, path, fails).storage)

\* for (const filePath of filePaths) / tempFiles.forEach: a statement that
\* raises ends the loop
RECURSIVE RemoveAll(_, _, _)
RemoveAll(st, paths, fails) ==
  IF paths = <<>> THEN Done(st)
  ELSE IF RemoveGuarded(st, Head(paths), fails).raised
    THEN RemoveGuarded(st, Head(paths), fails)
  ELSE RemoveAll(RemoveGuarded(st, Head(paths), fails).storage, Tail(paths), fails)

\* cleanupTempFiles(filePaths)
CleanupTempFiles(st, paths, fails) == RemoveAll(st, paths, fails)

\* cleanupResources(tempFiles, originalFile)
CleanupResources(st, temps, hasOriginal, original, fails) ==
  LET first == IF Len(temps) > 0 THEN RemoveAll(st, temps, fails) ELSE Done(st) IN
  IF first.raised THEN first
  ELSE IF hasOriginal THEN RemoveGuarded(first.storage, original, fails)
  ELSE first

CleanupPaths == {FilePath, DecryptedPath, PartPath(1)}

\* the lists of at most MaxListed paths
PathLists == UNION { [1..n -> CleanupPaths] : n \in 0..MaxListed }

CleanupInit ==
  /\ SumIdle
  /\ ConcIdle
  /\ ReqIdle
  /\ rdIn = <<>>
  /\ rdOut = <<>>
  /\ callIn \in [fn : {"cleanupTempFiles", "cleanupResources"},
                 storage : SUBSET CleanupPaths,
                 fails : SUBSET CleanupPaths,
                 list : PathLists,
                 hasOriginal : BOOLEAN,
                 original : {FilePath}]
  /\ callOut = <<>>

\* the storage a call finds: what the call before it left
StorageNow == IF callOut = <<>> THEN callIn.storage ELSE callOut[Len(callOut)].storage

\* cleanupTempFiles(list)
CleanupTempFilesCall ==
  /\ callIn # <<>>
  /\ callIn.fn = "cleanupTempFiles"
  /\ Len(callOut) < MaxCleanupCalls
  /\ callOut' = Append(callOut, CleanupTempFiles(StorageNow, callIn.list, callIn.fails))
  /\ UNCHANGED <<callIn, concVars, rdIn, rdOut, sumVars, reqVars>>

\* cleanupResources(list, original)
CleanupResourcesCall ==
  /\ callIn # <<>>
  /\ callIn.fn = "cleanupResources"
  /\ Len(callOut) < MaxCleanupCalls
  /\ callOut' = Append(callOut,
                       CleanupResources(StorageNow, callIn.list, callIn.hasOriginal,
                                        callIn.original, callIn.fails))
  /\ UNCHANGED <<callIn, concVars, rdIn, rdOut, sumVars, reqVars>>

CleanupNext ==
  \/ CleanupTempFilesCall
  \/ CleanupResourcesCall

SpecCleanup == CleanupInit /\ [][CleanupNext]_vars

\* C17: cleanup is idempotent and tolerant: a second call of cleanupTempFiles
\* or cleanupResources on the same list leaves storage as the first call left
\* it, and no call raises, also when a listed file is missing or cannot be
\* removed.
C17_CleanupIdempotentAndTolerant ==
  /\ \A i \in 1..Len(callOut) : ~callOut[i].raised
  /\ \A i \in 2..Len(callOut) : callOut[i].storage = callOut[1].storage

\* two calls on a list with a file that was removed, a file that was missing
\* from the start and a file that cannot be removed
C17_Witness ==
  /\ Len(callOut) = 2
  /\ callOut[1].storage # callIn.storage
  /\ \E i \in 1..Len(callIn.list) : callIn.list[i] \notin callIn.storage
  /\ \E i \in 1..Len(callIn.list) :
       callIn.list[i] \in callIn.storage \cap callIn.fails

\* ---------------------------------------------------------------------
\* Requests in flight together: the paths they write
\* ---------------------------------------------------------------------

MaxRequests == 2

MaxClock == 2

MaxTempParts == 1

Requests == 1..MaxRequests

OriginalNames == {"laudo.pdf", "exame.pdf"}

\* Date.now() + '-' + file.originalname, in uploadDir
UploadPath(time, name) ==
  [kind |-> "upload", time |-> time, name |-> name, part |-> 0]

\* `${inputPath}_decrypted.pdf`
DecryptedOf(path) == [path EXCEPT !.kind = "decrypted"]

\* path.join(tempDir, `temp_part_${i+1}_${Date.now()}.pdf`)
TempPartPath(i, time) ==
  [kind |-> "temp_part", time |-> time, name |-> "", part |-> i]

ConcInit ==
  /\ SumIdle
  /\ ReqIdle
  /\ rdIn = <<>>
  /\ rdOut = <<>>
  /\ callIn = <<>>
  /\ callOut = <<>>
  /\ now = 0
  /\ uploads \in [Requests -> [pc : {"arriving"}, name : OriginalNames,
                               parts : {0}, paths : {{}}]]

\* a millisecond passes
Tick ==
  /\ uploads # <<>>
  /\ now < MaxClock
  /\ now' = now + 1
  /\ UNCHANGED <<uploads, callIn, callOut, rdIn, rdOut, sumVars, reqVars>>

\* multer names the uploaded file of request r
MulterFilename(r) ==
  /\ uploads # <<>>
  /\ uploads[r].pc = "arriving"
  /\ uploads' = [uploads EXCEPT
                   ![r].pc = "handling",
                   ![r].paths = {UploadPath(now, uploads[r].name)}]
  /\ UNCHANGED <<now, callIn, callOut, rdIn, rdOut, sumVars, reqVars>>

\* decryptPdfWithPdfLib(filePath) writes its output
DecryptOutput(r) ==
  /\ uploads # <<>>
  /\ uploads[r].pc = "handling"
  /\ uploads' = [uploads EXCEPT
                   ![r].paths = @ \cup {DecryptedOf(p) : p \in {q \in @ : q.kind = "upload"}}]
  /\ UNCHANGED <<now, callIn, callOut, rdIn, rdOut, sumVars, reqVars>>

\* PdfSizeManager writes the next part to a temporary file
SizeManagerTemp(r) ==
  /\ uploads # <<>>
  /\ uploads[r].pc = "handling"
  /\ uploads[r].parts < MaxTempParts
  /\ uploads' = [uploads EXCEPT
                   ![r].parts = @ + 1,
                   ![r].paths = @ \cup {TempPartPath(uploads[r].parts + 1, now)}]
  /\ UNCHANGED <<now, callIn, callOut, rdIn, rdOut, sumVars, reqVars>>

\* the handler of request r cleans up and responds
RequestEnd(r) ==
  /\ uploads # <<>>
  /\ uploads[r].pc = "handling"
  /\ uploads' = [uploads EXCEPT ![r].pc = "done"]
  /\ UNCHANGED <<now, callIn, callOut, rdIn, rdOut, sumVars, reqVars>>

ConcNext ==
  \/ Tick
  \/ \E r \in Requests : MulterFilename(r)
  \/ \E r \in Requests : DecryptOutput(r)
  \/ \E r \in Requests : SizeManagerTemp(r)
  \/ \E r \in Requests : RequestEnd(r)

SpecConc == ConcInit /\ [][ConcNext]_vars

\* C18: two requests processed at the same time never use the same path: the
\* uploaded file and every file derived from it are of one request only,
\* also when both uploads have the same original name and are named in the
\* same millisecond.
C18_ConcurrentPathsDisjoint ==
  uploads # <<>> =>
    \A r1 \in Requests : \A r2 \in Requests :
      (r1 # r2 /\ uploads[r1].pc = "handling" /\ uploads[r2].pc = "handling") =>
        uploads[r1].paths \cap uploads[r2].paths = {}

\* ---------------------------------------------------------------------
\* Acceptance of a stage's text
\* ---------------------------------------------------------------------

OcrMethods == {"ocr", "ocr_api"}

\* C19: when the OCR capability fails for every part, the OCR stage fails:
\* the text accepted as the document's text is never the error message of
\* processOcr, and an OCR stage that was not accepted has its failed attempt
\* in processingResults while the request goes on.
C19_OcrFailureDegradesTheStage ==
  /\ finalText # "errtext"
  /\ \A i \in 1..Len(stageLog) :
       (stageLog[i].stage \in OcrMethods /\ ~stageLog[i].accepted) =>
         \E j \in 1..Len(processingResults) :
           processingResults[j] = Attempt(stageLog[i].stage)

MinContentLength == 50

\* the number of characters of a first page's text, by kind of text: a short
\* text has as many as the threshold of parsePdf, every other text one more
TextLength(kind) ==
  CASE kind = "empty" -> 0
    [] kind = "short" -> MinContentLength
    [] kind \in {"text", "meta", "errtext"} -> MinContentLength + 1

\* C20: the output of a recovery stage is accepted as the text of the
\* request only if its first page's text is longer than the minimum content
\* threshold of 50 characters; a stage that returns a shorter text fails.
C20_AcceptedTextLongerThanThreshold ==
  finalText \in {"text", "short", "meta", "errtext", "empty"} =>
    TextLength(finalText) > MinContentLength

\* ---------------------------------------------------------------------
\* Order of the recovery stages
\* ---------------------------------------------------------------------

\* C21: for a document classified as encrypted, OCR on the original file is
\* attempted before the decryption, and the decryption runs only after that
\* OCR attempt gave no usable text.
C21_OcrBeforeDecrypt ==
  \A i \in 1..Len(stageLog) :
    (isEncrypted /\ stageLog[i].stage = "desproteger") =>
      \E j \in 1..(i - 1) :
        stageLog[j].stage \in OcrMethods /\ ~stageLog[j].accepted

\* ---------------------------------------------------------------------
\* decryptPdfWithPdfLib: the page-by-page copy
\* ---------------------------------------------------------------------

MaxDocPages == 4

\* a page of the new document
CopiedPage(i) == [kind |-> "copy", page |-> i]

\* the page with the text `[Página ${i+1} não pôde ser recuperada]`
PlaceholderPage(i) == [kind |-> "placeholder", page |-> i]

\* the catch of one page without its placeholder
FailedPageCounted(acc, i, pageCount) ==
  [acc EXCEPT !.errorPages = @ + 1]

\* catch (pageError): errorPages++, and the placeholder page while
\* errorPages < pageCount
FailedPage(acc, i, pageCount) ==
  IF acc.errorPages + 1 < pageCount
    THEN [acc EXCEPT !.errorPages = @ + 1,
                     !.doc = Append(@, PlaceholderPage(i))]
    ELSE [acc EXCEPT !.errorPages = @ + 1]

\* for (let i = 0; i < pageCount; i++): pages i..pageCount, numbered from 1
RECURSIVE CopyLoop(_, _, _)
CopyLoop(copies, i, acc) ==
  IF i > Len(copies) THEN acc
  ELSE IF copies[i]
    THEN CopyLoop(copies, i + 1,
                  [acc EXCEPT !.pagesAdded = @ + 1,
                              !.doc = Append(@, CopiedPage(i))])
  ELSE CopyLoop(copies, i + 1, FailedPage(acc, i, Len(copies)))

\* the result object; written is the document at outputPath, <<>> when none
DecryptFailure ==
  [success |-> FALSE, pageCount |-> 0, pagesAdded |-> 0, errorPages |-> 0,
   written |-> <<>>]

\* decryptPdfWithPdfLib(inputPath): load is the outcome of the PDFDocument.load
\* strategies, copies[i] whether page i can be copied, write the outcome of
\* newPdfDoc.save and fs.writeFileSync
DecryptPdfWithPdfLib(load, copies, write) ==
  IF load = "raise" THEN DecryptFailure
  ELSE LET acc == CopyLoop(copies, 1, [pagesAdded |-> 0, errorPages |-> 0, doc |-> <<>>])
       IN IF acc.pagesAdded = 0 THEN DecryptFailure
          ELSE IF write = "raise" THEN DecryptFailure
          ELSE [success |-> TRUE, pageCount |-> Len(copies),
                pagesAdded |-> acc.pagesAdded, errorPages |-> acc.errorPages,
                written |-> acc.doc]

\* which pages of a document of at most MaxDocPages pages can be copied
CopyOutcomes == UNION { [1..n -> BOOLEAN] : n \in 0..MaxDocPages }

DecryptInit ==
  /\ SumIdle
  /\ ConcIdle
  /\ ReqIdle
  /\ rdIn = <<>>
  /\ rdOut = <<>>
  /\ callIn \in [fn : {"decryptPdfWithPdfLib"}, load : {"loaded", "raise"},
                 copies : CopyOutcomes, write : {"written", "raise"}]
  /\ callOut = <<>>

\* decryptPdfWithPdfLib(filePath)
DecryptPdfWithPdfLibCall ==
  /\ callIn # <<>>
  /\ callIn.fn = "decryptPdfWithPdfLib"
  /\ callOut = <<>>
  /\ callOut' = <<DecryptPdfWithPdfLib(callIn.load, callIn.copies, callIn.write)>>
  /\ UNCHANGED <<callIn, concVars, rdIn, rdOut, sumVars, reqVars>>

DecryptNext == DecryptPdfWithPdfLibCall

SpecDecrypt == DecryptInit /\ [][DecryptNext]_vars

\* a page of the loaded document was copied
SomePageCopied ==
  /\ callIn.load = "loaded"
  /\ \E i \in 1..Len(callIn.copies) : callIn.copies[i]

\* the written document stands page for page for the loaded one
PagesPreserved ==
  /\ callOut[1].pagesAdded + callOut[1].errorPages = callOut[1].pageCount
  /\ callOut[1].pageCount = Len(callIn.copies)
  /\ Len(callOut[1].written) = callOut[1].pageCount
  /\ \A i \in 1..Len(callIn.copies) :
       callOut[1].written[i] =
         IF callIn.copies[i] THEN CopiedPage(i) ELSE PlaceholderPage(i)

ValidateInit ==
  /\ SumIdle
  /\ ConcIdle
  /\ ReqIdle
  /\ rdIn = <<>>
  /\ rdOut = <<>>
  /\ callIn \in [fn : {"validatePdf"}, exists : BOOLEAN,
                 file : {f \in Files : f.present}, load : LoadOutcomes]
  /\ callOut = <<>>

\* validationResult = await validatePdf(filePath): every path of validatePdf
\* ends in a return statement, the outer catch included
ValidatePdfCall ==
  /\ callIn # <<>>
  /\ callIn.fn = "validatePdf"
  /\ callOut = <<>>
  /\ callOut' = <<Return(ValidatePdf(callIn.exists, callIn.file, callIn.load))>>
  /\ UNCHANGED <<callIn, concVars, rdIn, rdOut, sumVars, reqVars>>

ValidateNext == ValidatePdfCall

SpecValidate == ValidateInit /\ [][ValidateNext]_vars

\* C23: validatePdf returns a result object and does not raise for every
\* file that exists, malformed or not; a missing file, and only that, reaches
\* the caller as an error of its own kind and not as a validation result.
C23_OnlyMissingFilePropagates ==
  Len(callOut) = 1 =>
    /\ callIn.exists => callOut[1].kind = "return"
    /\ ~callIn.exists => callOut[1].kind = "raise"

\* ---------------------------------------------------------------------
\* isPdfEncrypted on an input it cannot read
\* ---------------------------------------------------------------------

WrongTypeMessage ==
  <<"I","n","p","u","t"," ","d","e","v","e"," ","s","e","r"," ","u","m"," ",
    "c","a","m","i","n","h","o"," ","d","e"," ","a","r","q","u","i","v",
    "o"," ","(","s","t","r","i","n","g",")"," ","o","u"," ","B","u","f",
    "f","e","r"," ","d","o"," ","P","D","F">>

\* error.message of the exception that reaches the outer catch for a path:
\* the error of fs.readFileSync, or of the fs.existsSync test of the
\* Buffer-aware version
ReadErrorMessage(version, status, path) ==
  IF status = "ENOENT" /\ version = "buffer"
    THEN <<"A","r","q","u","i","v","o"," ","n","ã","o"," ","e","n","c","o","n","t",
    "r","a","d","o",":"," ">> \o path
  ELSE IF status = "ENOENT"
    THEN <<"E","N","O","E","N","T",":"," ","n","o"," ","s","u","c","h"," ","f","i",
    "l","e"," ","o","r"," ","d","i","r","e","c","t","o","r","y",","," ",
    "o","p","e","n"," ","'">> \o path \o <<"'">>
  ELSE <<"E","A","C","C","E","S",":"," ","p","e","r","m","i","s","s","i","o","n",
    " ","d","e","n","i","e","d",","," ","o","p","e","n"," ","'">> \o path \o <<"'">>

\* the outer catch: true when the message mentions encryption
OuterCatch(message) ==
  \/ Includes(message, <<"e","n","c","r","y","p","t","e","d">>)
  \/ Includes(message, <<"p","a","s","s","w","o","r","d">>)
  \/ Includes(message, <<"c","r","y","p","t">>)

\* isPdfEncrypted(pdfInput) for an input of any type and a file in any state
IsPdfEncryptedOn(version, input, lib) ==
  IF input.type = "other" THEN OuterCatch(WrongTypeMessage)
  ELSE IF input.type = "path" /\ input.status # "readable"
    THEN OuterCatch(ReadErrorMessage(version, input.status, input.path))
  ELSE IsPdfEncrypted(version, input.bytes, lib)

PathLaudo == <<"u","p","l","o","a","d","s","/","1","7","-","l","a","u","d","o",".","p",
    "d","f">>

PathSenha == <<"u","p","l","o","a","d","s","/","1","7","-","p","a","s","s","w","o","r",
    "d",".","p","d","f">>

PathDecrypted == <<"u","p","l","o","a","d","s","/","1","7","-","l","a","u","d","o",".","p",
    "d","f","_","d","e","c","r","y","p","t","e","d",".","p","d","f">>

InputPaths == {PathLaudo, PathSenha, PathDecrypted}

InputBytes == {TokHeader \o TokObject, TokHeader \o TokNegativeP}

\* a file path in one of three states, a Buffer, or a value of another type
PdfInputs ==
  [type : {"path"}, path : InputPaths, status : {"readable", "ENOENT", "EACCES"},
   bytes : InputBytes]
  \cup [type : {"buffer", "other"}, path : {<<>>}, status : {"readable"},
        bytes : InputBytes]

UnreadableInit ==
  /\ SumIdle
  /\ ConcIdle
  /\ ReqIdle
  /\ rdIn = <<>>
  /\ rdOut = <<>>
  /\ callIn \in [fn : {"isPdfEncrypted"}, version : {"utils", "buffer"},
                 input : PdfInputs, lib : LibOutcomes]
  /\ callOut = <<>>

\* isEncrypted = await isPdfEncrypted(pdfInput)
IsPdfEncryptedOnCall ==
  /\ callIn # <<>>
  /\ callIn.fn = "isPdfEncrypted"
  /\ callOut = <<>>
  /\ callOut' = <<IsPdfEncryptedOn(callIn.version, callIn.input, callIn.lib)>>
  /\ UNCHANGED <<callIn, concVars, rdIn, rdOut, sumVars, reqVars>>

UnreadableNext == IsPdfEncryptedOnCall

SpecUnreadable == UnreadableInit /\ [][UnreadableNext]_vars

\* the input cannot be analysed at all
CannotAnalyse(input) ==
  \/ input.type = "other"
  \/ input.type = "path" /\ input.status # "readable"

\* C24: when isPdfEncrypted cannot analyse its input at all (file missing or
\* unreadable, input of the wrong type) it returns false, for every input
\* path and every error.
C24_UnreadableInputIsNotEncrypted ==
  (Len(callOut) = 1 /\ CannotAnalyse(callIn.input)) => callOut[1] = FALSE

\* ---------------------------------------------------------------------
\* detectProtectionType over the permission values
\* ---------------------------------------------------------------------

MaxPermission == 4095

\* /P values: every pattern of the twelve low bits, negative and not
PermissionValues == (-MaxPermission - 1)..MaxPermission

\* the text of an integer as a PDF writes it
RECURSIVE DecimalDigits(_)
DecimalDigits(n) ==
  IF n < 10 THEN <<DigitChars[n + 1]>>
  ELSE DecimalDigits(n \div 10) \o <<DigitChars[(n % 10) + 1]>>

DecimalText(n) == IF n < 0 THEN <<"-">> \o DecimalDigits(-n) ELSE DecimalDigits(n)

\* a document whose only /P entry has the value n
DocumentWithP(n) == TokHeader \o <<"/", "P", " ">> \o DecimalText(n) \o <<NL>>

PermInit ==
  /\ SumIdle
  /\ ConcIdle
  /\ ReqIdle
  /\ rdIn = <<>>
  /\ rdOut = <<>>
  /\ callIn \in [fn : {"detectProtectionType"}, value : PermissionValues]
  /\ callOut = <<>>

\* protectionInfo = await detectProtectionType(filePath)
DetectProtectionTypeOfValue ==
  /\ callIn # <<>>
  /\ callIn.fn = "detectProtectionType"
  /\ callOut = <<>>
  /\ callOut' = <<DetectProtectionType(DocumentWithP(callIn.value))>>
  /\ UNCHANGED <<callIn, concVars, rdIn, rdOut, sumVars, reqVars>>

PermNext == DetectProtectionTypeOfValue

SpecPerm == PermInit /\ [][PermNext]_vars

\* C25: detectProtectionType sets isLaboratoryReport if and only if the
\* permission bits are print allowed and copy, modify, annotate, forms,
\* accessibility and assemble all denied.
C25_KnownPatternIffPrintOnly ==
  Len(callOut) = 1 =>
    (callOut[1].isLaboratoryReport <=> PrintOnlyPattern(Permissions(callIn.value)))

\* the capabilities of the profile that a permission value denies
DeniedCapabilities(value) ==
  {bit \in {4, 16, 8, 32, 256, 512, 1024} : ~BitSet(value, bit)}

\* C26: for every permission integer, protectionLevel is the number of
\* denied capabilities among print, copy, modify, annotate, fillForms,
\* accessibility and assemble.
C26_ProtectionLevelCountsDenied ==
  Len(callOut) = 1 =>
    callOut[1].protectionLevel = Cardinality(DeniedCapabilities(callIn.value))

\* ---------------------------------------------------------------------
\* downloadPdfFromBlob: attempts and waits
\* ---------------------------------------------------------------------

MaxMaxRetries == 5

BackoffStep == 2000

BackoffCap == 10000

Min(a, b) == IF a < b THEN a ELSE b

\* waitTime after the failed attempt: attempt * 2000, at most 10 s in
\* blobHandler.js
WaitTime(version, attempt) ==
  IF version = "blobHandler"
    THEN Min(attempt * BackoffStep, BackoffCap)
    ELSE attempt * BackoffStep

\* what one fetch does: a PDF, an error that may pass, HTTP 404 or 403
FetchOutcomes == {"pdf", "error", "http404"}

\* error.message.includes('404') || error.message.includes('403'): break
Definitive(version, outcome) == version = "blobHandler" /\ outcome = "http404"

\* events of a call, in order
AttemptEvent(n, outcome) == [kind |-> "attempt", n |-> n, ms |-> 0, outcome |-> outcome]

WaitEvent(n, ms) == [kind |-> "wait", n |-> n, ms |-> ms, outcome |-> "none"]

EndEvent(kind, n) == [kind |-> kind, n |-> n, ms |-> 0, outcome |-> "none"]

\* the number of the next attempt
NextAttempt == Cardinality({i \in 1..Len(callOut) : callOut[i].kind = "attempt"}) + 1

\* the for loop is still running
Downloading ==
  /\ callIn # <<>>
  /\ callIn.fn = "downloadPdfFromBlob"
  /\ IF callOut = <<>> THEN TRUE ELSE callOut[Len(callOut)].kind = "wait"
  /\ NextAttempt <= callIn.maxRetries

BlobInit ==
  /\ SumIdle
  /\ ConcIdle
  /\ ReqIdle
  /\ rdIn = <<>>
  /\ rdOut = <<>>
  /\ callIn \in [fn : {"downloadPdfFromBlob"}, version : {"blobHandler", "router"},
                 maxRetries : 1..MaxMaxRetries]
  /\ callOut = <<>>

\* an attempt whose fetch gives a PDF: return pdfBuffer
DownloadAttemptOk ==
  /\ Downloading
  /\ callOut' = callOut \o <<AttemptEvent(NextAttempt, "pdf"),
                             EndEvent("return", NextAttempt)>>
  /\ UNCHANGED <<callIn, concVars, rdIn, rdOut, sumVars, reqVars>>

\* an attempt that fails: the catch waits when attempts are left, and the
\* throw after the loop follows the last attempt or a break
DownloadAttemptFail ==
  /\ Downloading
  /\ \E o \in FetchOutcomes \ {"pdf"} :
       callOut' = callOut \o
         <<AttemptEvent(NextAttempt, o),
           IF Definitive(callIn.version, o)
             THEN EndEvent("raise", NextAttempt)
           ELSE IF NextAttempt < callIn.maxRetries
             THEN WaitEvent(NextAttempt, WaitTime(callIn.version, NextAttempt))
           ELSE EndEvent("raise", NextAttempt)>>
  /\ UNCHANGED <<callIn, concVars, rdIn, rdOut, sumVars, reqVars>>

BlobNext ==
  \/ DownloadAttemptOk
  \/ DownloadAttemptFail

SpecBlob == BlobInit /\ [][BlobNext]_vars

RECURSIVE Doubled(_, _)
Doubled(ms, times) == IF times = 0 THEN ms ELSE Doubled(2 * ms, times - 1)

\* C27: downloadPdfFromBlob makes at most maxRetries attempts, returns at
\* the first attempt that succeeds, waits after failed attempt k for 2 s
\* doubled k-1 times, does not wait after the last attempt, and raises only
\* when its attempts are exhausted.
C27_BoundedRetriesWithExponentialBackoff ==
  \A i \in 1..Len(callOut) :
    /\ callOut[i].n <= callIn.maxRetries
    /\ (callOut[i].kind = "attempt" /\ callOut[i].outcome = "pdf") =>
         (Len(callOut) = i + 1 /\ callOut[i + 1].kind = "return")
    /\ callOut[i].kind = "wait" =>
         /\ callOut[i].ms = Doubled(BackoffStep, callOut[i].n - 1)
         /\ callOut[i].n < callIn.maxRetries
    /\ callOut[i].kind = "raise" => callOut[i].n = callIn.maxRetries

\* ---------------------------------------------------------------------
\* processLargePdfWithBlob: blob round trip and fallbacks
\* ---------------------------------------------------------------------

\* what the call leaves: its end, the buffers processingFunction was
\* applied to in order, the buffer the returned result was computed from,
\* results.blobInfo.processedViaBlob, and whether the finally block
\* scheduled deletePdfFromBlob
BlobResult(kind, applied, from, viaBlob, cleanup) ==
  [kind |-> kind, applied |-> applied, from |-> from,
   processedViaBlob |-> viaBlob, cleanup |-> cleanup]

\* catch (blobError): processingFunction(pdfBuffer), and a throw when that
\* fails as well; procs[i] is the outcome of the i-th application
CompleteFallback(procs, applied, saved) ==
  LET after == Append(applied, "original")
  IN  IF procs[Len(after)] = "ok"
        THEN BlobResult("return", after, "original", FALSE, saved)
        ELSE BlobResult("raise", after, "none", FALSE, saved)

\* the inner try after savePdfToBlob: download and process, and in catch
\* (downloadError) process the original buffer
ViaBlob(procs, get) ==
  IF get = "ok" /\ procs[1] = "ok"
    THEN BlobResult("return", <<"downloaded">>, "downloaded", TRUE, TRUE)
    ELSE LET tried == IF get = "ok" THEN <<"downloaded">> ELSE <<>>
             after == Append(tried, "original")
         IN  IF procs[Len(after)] = "ok"
               THEN BlobResult("return", after, "original", FALSE, TRUE)
               ELSE CompleteFallback(procs, after, TRUE)

ProcessLargePdfWithBlob(version, configured, put, get, procs) ==
  IF version = "blobHandler" /\ ~configured
    THEN IF procs[1] = "ok"
           THEN BlobResult("return", <<"original">>, "original", FALSE, FALSE)
           ELSE CompleteFallback(procs, <<"original">>, FALSE)
  ELSE IF put # "ok"
    THEN CompleteFallback(procs, <<>>, FALSE)
  ELSE ViaBlob(procs, get)

\* outcomes of the applications of processingFunction a call can make
ProcessingOutcomes == [1..3 -> {"ok", "raise"}]

LargePdfInit ==
  /\ SumIdle
  /\ ConcIdle
  /\ ReqIdle
  /\ rdIn = <<>>
  /\ rdOut = <<>>
  /\ callIn \in [fn : {"processLargePdfWithBlob"}, version : {"blobHandler", "router"},
                 configured : BOOLEAN, put : {"ok", "raise"}, get : {"ok", "raise"},
                 procs : ProcessingOutcomes]
  /\ callOut = <<>>

ProcessLargePdfWithBlobCall ==
  /\ callIn # <<>>
  /\ callIn.fn = "processLargePdfWithBlob"
  /\ callOut = <<>>
  /\ callOut' = <<ProcessLargePdfWithBlob(callIn.version, callIn.configured,
                                          callIn.put, callIn.get, callIn.procs)>>
  /\ UNCHANGED <<callIn, concVars, rdIn, rdOut, sumVars, reqVars>>

LargePdfNext == ProcessLargePdfWithBlobCall

SpecLargePdf == LargePdfInit /\ [][LargePdfNext]_vars

\* the blob round trip of the call succeeded: the put, then the get
RoundTripOk == callIn.put = "ok" /\ callIn.get = "ok"

AppliedTo(buffer) == \E i \in 1..Len(callOut[1].applied) : callOut[1].applied[i] = buffer

\* C28: processLargePdfWithBlob applies the processing function to the
\* original buffer if and only if the blob round trip failed; when the
\* round trip succeeds it applies it exactly once, to the downloaded
\* buffer; and processedViaBlob is true exactly when the returned result
\* was computed from the downloaded buffer.
C28_OriginalBufferIffRoundTripFailed ==
  (callIn # <<>> /\ callIn.fn = "processLargePdfWithBlob" /\ callOut # <<>>) =>
    /\ AppliedTo("original") <=> ~RoundTripOk
    /\ RoundTripOk => callOut[1].applied = <<"downloaded">>
    /\ callOut[1].kind = "return" =>
         (callOut[1].processedViaBlob <=> callOut[1].from = "downloaded")

\* ---------------------------------------------------------------------
\* parsePdf: the cascade of extraction methods
\* ---------------------------------------------------------------------

\* the methods of the cascade, in the order of the nested try blocks
CascadeMethods == <<"extractWithPdfParse", "extractWithPdfLib", "extractBySplitting">>

\* the page an extraction method returns; its text is kept by its length
ResultPage(name, length) == [page |-> name, length |-> length]

\* what an extraction method does: it throws, or returns one page whose
\* text is empty, as long as the threshold, or one character longer
ExtractOutcomes ==
  {Raise} \cup {Return(<<ResultPage("Resultados", n)>>) :
                  n \in {0, MinContentLength, MinContentLength + 1}}

\* the acceptance test with >= in place of >
SignificantFromThreshold(results) ==
  /\ Len(results) > 0
  /\ results[1].length >= MinContentLength

\* results && results[0] && results[0].text && results[0].text.length > 50
Significant(results) ==
  /\ Len(results) > 0
  /\ results[1].length > 0
  /\ results[1].length > MinContentLength

\* extractBasicMetadata: the information page, or the error page of its
\* catch when the document cannot be loaded
ExtractBasicMetadata(load) ==
  IF load = "ok"
    THEN <<ResultPage("Informações Básicas", MinContentLength + 1)>>
    ELSE <<ResultPage("Erro de Processamento", MinContentLength + 1)>>

\* what a call leaves: its end, the pages it returned, the methods it
\* called in order, and the method whose pages it returned
ParseResult(kind, pages, tried, method) ==
  [kind |-> kind, pages |-> pages, tried |-> tried, method |-> method]

\* the nested try blocks from method k on: a method that throws or whose
\* text is too short reaches the catch, which tries the next one
RECURSIVE Cascade(_, _, _, _)
Cascade(methods, load, k, tried) ==
  IF k > Len(CascadeMethods)
    THEN ParseResult("return", ExtractBasicMetadata(load),
                     Append(tried, "extractBasicMetadata"), "extractBasicMetadata")
  ELSE IF methods[k].kind = "return" /\ Significant(methods[k].value)
    THEN ParseResult("return", methods[k].value,
                     Append(tried, CascadeMethods[k]), CascadeMethods[k])
  ELSE Cascade(methods, load, k + 1, Append(tried, CascadeMethods[k]))

\* parsePdf(pdfInput): a path is read first, and a failed read is thrown
ParsePdf(input, read, methods, load) ==
  IF input = "path" /\ read # "ok"
    THEN ParseResult("raise", <<>>, <<>>, "none")
    ELSE Cascade(methods, load, 1, <<>>)

ParseInit ==
  /\ SumIdle
  /\ ConcIdle
  /\ ReqIdle
  /\ rdIn = <<>>
  /\ rdOut = <<>>
  /\ callIn \in [fn : {"parsePdf"}, input : {"buffer", "path"}, read : {"ok", "raise"},
                 methods : [1..Len(CascadeMethods) -> ExtractOutcomes],
                 load : {"ok", "raise"}]
  /\ callOut = <<>>

ParsePdfCall ==
  /\ callIn # <<>>
  /\ callIn.fn = "parsePdf"
  /\ callOut = <<>>
  /\ callOut' = <<ParsePdf(callIn.input, callIn.read, callIn.methods, callIn.load)>>
  /\ UNCHANGED <<callIn, concVars, rdIn, rdOut, sumVars, reqVars>>

ParseNext == ParsePdfCall

SpecParse == ParseInit /\ [][ParseNext]_vars

\* method k of the call returned a first page of more than 50 characters
LongFirstPage(k) ==
  /\ callIn.methods[k].kind = "return"
  /\ callIn.methods[k].value[1].length > 50

\* the methods were called in the fixed order, none skipped
InCascadeOrder(tried) ==
  \A i \in 1..Len(tried) :
    tried[i] = (CascadeMethods \o <<"extractBasicMetadata">>)[i]

\* C29: parsePdf calls its methods in the fixed order direct,
\* reconstruct-then-extract, per-page split, and returns the pages of the
\* first one whose first page has more than 50 characters; the metadata
\* method runs only when all three failed; and for a buffer the call never
\* raises and returns at least one page.
C29_FirstLongEnoughMethodWins ==
  (callIn # <<>> /\ callIn.fn = "parsePdf" /\ callOut # <<>>) =>
    LET r == callOut[1]
    IN  /\ Len(r.tried) <= 4
        /\ InCascadeOrder(r.tried)
        /\ r.kind = "return" =>
             /\ \A k \in 1..3 :
                  (r.method = CascadeMethods[k]) <=>
                    (LongFirstPage(k) /\ \A j \in 1..(k - 1) : ~LongFirstPage(j))
             /\ \A k \in 1..3 :
                  r.method = CascadeMethods[k] =>
                    (r.pages = callIn.methods[k].value /\ Len(r.tried) = k)
             /\ (\E i \in 1..Len(r.tried) : r.tried[i] = "extractBasicMetadata") <=>
                  (\A k \in 1..3 : ~LongFirstPage(k))
        /\ callIn.input = "buffer" => (r.kind = "return" /\ Len(r.pages) > 0)

\* a buffer whose first method returned exactly 50 characters, whose second
\* threw, and whose third was accepted
C29_Witness ==
  /\ callIn # <<>>
  /\ callIn.fn = "parsePdf"
  /\ callOut # <<>>
  /\ callIn.input = "buffer"
  /\ callIn.methods[1] = Return(<<ResultPage("Resultados", 50)>>)
  /\ callIn.methods[2] = Raise
  /\ callOut[1].method = "extractBySplitting"

\* ---------------------------------------------------------------------
\* splitTextIntoChunks: fixed-size chunks of a page's text
\* ---------------------------------------------------------------------

DefaultMaxTokens == 3000

CharsPerToken == 4

MaxFullChunks == 2

MaxBoundaryDistance == 20

\* text.slice(from, to) with 0 <= from <= to, counted from zero
Slice(text, from, to) == SubSeq(text, from + 1, Min(to, Len(text)))

\* the loop with i < text.length - chunkSize: the last chunk is not pushed
RECURSIVE ChunksBeforeLast(_, _, _)
ChunksBeforeLast(text, chunkSize, i) ==
  IF i >= Len(text) - chunkSize
    THEN <<>>
    ELSE <<Slice(text, i, i + chunkSize)>> \o ChunksBeforeLast(text, chunkSize, i + chunkSize)

\* for (let i = 0; i < text.length; i += chunkSize)
\*   chunks.push(text.slice(i, i + chunkSize))
RECURSIVE ChunksFrom(_, _, _)
ChunksFrom(text, chunkSize, i) ==
  IF i >= Len(text)
    THEN <<>>
    ELSE <<Slice(text, i, i + chunkSize)>> \o ChunksFrom(text, chunkSize, i + chunkSize)

SplitTextIntoChunks(text, maxTokens) == ChunksFrom(text, maxTokens * CharsPerToken, 0)

\* a text of n characters whose content does not repeat with the chunk size
ChunkAlphabet == <<"a", "b", "c", "d", "e", "f", "g">>

TextOfLength(n) == [i \in 1..n |-> ChunkAlphabet[(i % Len(ChunkAlphabet)) + 1]]

\* lengths around every multiple of the chunk size, up to MaxFullChunks
\* full chunks
ChunkTextLengths ==
  {n \in 0..(MaxFullChunks * DefaultMaxTokens * CharsPerToken + MaxBoundaryDistance) :
     \E m \in 0..MaxFullChunks :
       /\ n >= m * DefaultMaxTokens * CharsPerToken - MaxBoundaryDistance
       /\ n <= m * DefaultMaxTokens * CharsPerToken + MaxBoundaryDistance}

ChunkInit ==
  /\ SumIdle
  /\ ConcIdle
  /\ ReqIdle
  /\ rdIn = <<>>
  /\ rdOut = <<>>
  /\ callIn \in {[fn |-> "splitTextIntoChunks", text |-> TextOfLength(n)] :
                   n \in ChunkTextLengths}
  /\ callOut = <<>>

\* const textChunks = splitTextIntoChunks(page.text), and the loop
\* for (const chunk of textChunks) that makes one extraction call per chunk
SplitTextIntoChunksCall ==
  /\ callIn # <<>>
  /\ callIn.fn = "splitTextIntoChunks"
  /\ callOut = <<>>
  /\ LET textChunks == SplitTextIntoChunks(callIn.text, DefaultMaxTokens)
     IN  callOut' = <<[chunks |-> textChunks, calls |-> Len(textChunks)]>>
  /\ UNCHANGED <<callIn, concVars, rdIn, rdOut, sumVars, reqVars>>

ChunkNext == SplitTextIntoChunksCall

SpecChunk == ChunkInit /\ [][ChunkNext]_vars

\* C30: the chunks of splitTextIntoChunks(text), concatenated in order, are
\* text; each is non-empty and at most 12,000 characters long, all but the
\* last exactly 12,000; an empty text gives no chunk and no extraction call.
C30_ChunksPartitionTheText ==
  (callIn # <<>> /\ callIn.fn = "splitTextIntoChunks" /\ callOut # <<>>) =>
    LET chunks == callOut[1].chunks
    IN  /\ Concat(chunks) = callIn.text
        /\ \A i \in 1..Len(chunks) :
             /\ Len(chunks[i]) > 0
             /\ Len(chunks[i]) <= 12000
             /\ i < Len(chunks) => Len(chunks[i]) = 12000
        /\ callIn.text = <<>> => (chunks = <<>> /\ callOut[1].calls = 0)

\* a text one character longer than two full chunks has been split in three
C30_Witness ==
  /\ callIn # <<>>
  /\ callIn.fn = "splitTextIntoChunks"
  /\ callOut # <<>>
  /\ Len(callIn.text) = 24001
  /\ Len(callOut[1].chunks) = 3

\* ---------------------------------------------------------------------
\* splitPDF: parts of a document
\* ---------------------------------------------------------------------

\* a buffer splitPDF returns: the pages first..last of the document, its
\* length in bytes, and whether it is the original buffer itself
PdfPart(first, last, bytes, whole) ==
  [first |-> first, last |-> last, bytes |-> bytes, whole |-> whole]

\* return [pdfBuffer]
OriginalOnly(doc) == <<PdfPart(1, doc.pageCount, doc.bytes, TRUE)>>

\* Math.ceil(pageCount / pagesPerPart)
NumberOfParts(pageCount, pagesPerPart) == (pageCount + pagesPerPart - 1) \div pagesPerPart

RECURSIVE BytesOfPages(_, _, _)
BytesOfPages(doc, first, last) ==
  IF first > last THEN 0 ELSE doc.pageBytes[first] + BytesOfPages(doc, first + 1, last)

\* part i, counted from 1: pages i0 * pagesPerPart .. min((i0 + 1) *
\* pagesPerPart, pageCount) - 1 of the source, counted from 0
BuiltPart(doc, pagesPerPart, i) ==
  LET startPage == (i - 1) * pagesPerPart
      endPage == Min(i * pagesPerPart, doc.pageCount)
  IN  PdfPart(startPage + 1, endPage, BytesOfPages(doc, startPage + 1, endPage), FALSE)

\* the loop over the parts that pushes every part, built or not
RECURSIVE PartsFromUnchecked(_, _, _)
PartsFromUnchecked(doc, pagesPerPart, i) ==
  IF i > NumberOfParts(doc.pageCount, pagesPerPart)
    THEN <<>>
    ELSE <<BuiltPart(doc, pagesPerPart, i)>> \o PartsFromUnchecked(doc, pagesPerPart, i + 1)

\* the loop over the parts: a part with no page (pagesAdded = 0 and no
\* blank page) and a part whose construction or save throws are not pushed
RECURSIVE PartsFrom(_, _, _)
PartsFrom(doc, pagesPerPart, i) ==
  IF i > NumberOfParts(doc.pageCount, pagesPerPart)
    THEN <<>>
    ELSE (IF doc.builds[i] = "saved" THEN <<BuiltPart(doc, pagesPerPart, i)>> ELSE <<>>)
           \o PartsFrom(doc, pagesPerPart, i + 1)

\* doc.load is the outcome of the load attempts together
SplitPDF(doc, pagesPerPart) ==
  IF doc.load # "ok" THEN OriginalOnly(doc)
  ELSE IF doc.pageCount <= pagesPerPart THEN OriginalOnly(doc)
  ELSE IF doc.bytes < BytesPerMB THEN OriginalOnly(doc)
  ELSE LET built == PartsFrom(doc, pagesPerPart, 1)
       IN  IF Len(built) = 0 THEN OriginalOnly(doc) ELSE built

\* ---------------------------------------------------------------------
\* processOcr: parts, payload limit, part files
\* ---------------------------------------------------------------------

MaxOcrPages == 2

BytesPerKB == 1024

OcrLimitKB == 1000

ReduceAboveKB == 950

\* Math.round(bytes / 1024)
RoundKB(bytes) == (bytes + (BytesPerKB \div 2)) \div BytesPerKB

\* buffers of 200 KB, of 1000 KB and 511 bytes, and of 1100 KB
SmallBytes == 200 * BytesPerKB

EdgeBytes == OcrLimitKB * BytesPerKB + 511

LargeBytes == 1100 * BytesPerKB

\* what reducePdfQuality makes of a 1100 KB buffer when it can compress it
ReducedBytes == 900 * BytesPerKB

\* reducePdfQuality(buffer): the re-saved document, or the buffer itself
\* from its catch
ReducePdfQuality(reducer, bytes) ==
  IF reducer = "compresses" /\ bytes > ReducedBytes THEN ReducedBytes ELSE bytes

\* for every part: if (partSizeKB > 950) pdfParts[i] = reducePdfQuality(...)
ReduceLargeParts(reducer, parts) ==
  [i \in 1..Len(parts) |->
     IF RoundKB(parts[i].bytes) > ReduceAboveKB
       THEN [parts[i] EXCEPT !.bytes = ReducePdfQuality(reducer, parts[i].bytes)]
       ELSE parts[i]]

\* let pdfParts = [pdfBuffer]; if (fileSizeKB > 1000) splitPDF(pdfBuffer, 1)
\* and the reduction of the large parts
OcrParts(doc, reducer) ==
  IF RoundKB(doc.bytes) > OcrLimitKB
    THEN ReduceLargeParts(reducer, SplitPDF(doc, 1))
    ELSE OriginalOnly(doc)

\* what a call leaves: its end, the parts sent to the OCR service with
\* their bytes, allResults, the parts it worked on, and the part files
\* that still exist
OcrResult(kind, sent, pages, parts, left) ==
  [kind |-> kind, sent |-> sent, pages |-> pages, parts |-> parts, left |-> left]

OcrPage(part, kind) == [part |-> part, kind |-> kind]

\* the test that never finds a part too large
TooLargeNever(bytes) == FALSE

\* if (partSize > 1000), partSize the rounded KB of the part file
TooLarge(bytes) == RoundKB(bytes) > OcrLimitKB

\* the loop over partPaths from part i on, then the cleanup of tempFiles
\* and the throw when allResults is empty; a statSync that throws leaves
\* the function through the outer catch
RECURSIVE OcrLoop(_, _, _, _, _, _)
OcrLoop(parts, api, fails, i, sent, pages) ==
  IF i > Len(parts)
    THEN OcrResult(IF Len(pages) = 0 THEN "raise" ELSE "return", sent, pages, parts, {})
  ELSE IF fails.kind = "stat" /\ fails.at = i
    THEN OcrResult("raise", sent, pages, parts, 1..Len(parts))
  ELSE IF TooLarge(parts[i].bytes)
    THEN OcrLoop(parts, api, fails, i + 1, sent, Append(pages, OcrPage(i, "tooLarge")))
  ELSE LET posted == Append(sent, [part |-> i, bytes |-> parts[i].bytes])
       IN  CASE api[i] = "results" ->
                  OcrLoop(parts, api, fails, i + 1, posted, Append(pages, OcrPage(i, "text")))
             [] api[i] = "errorMessage" ->
                  OcrLoop(parts, api, fails, i + 1, posted, Append(pages, OcrPage(i, "error")))
             [] api[i] = "raise" ->
                  OcrLoop(parts, api, fails, i + 1, posted, Append(pages, OcrPage(i, "error")))
             [] OTHER ->
                  OcrLoop(parts, api, fails, i + 1, posted, pages)

\* processOcr(pdfPath): a missing file throws; the parts are written to
\* `${pdfPath}_ocr_part_${i+1}.pdf` one after the other, and a
\* writeFileSync that throws leaves the files written before it
ProcessOcr(exists, doc, reducer, api, fails) ==
  IF ~exists
    THEN OcrResult("raise", <<>>, <<>>, <<>>, {})
  ELSE LET parts == OcrParts(doc, reducer)
       IN  IF fails.kind = "write" /\ fails.at <= Len(parts)
             THEN OcrResult("raise", <<>>, <<>>, parts, 1..(fails.at - 1))
             ELSE OcrLoop(parts, api, fails, 1, <<>>, <<>>)

\* the documents given to processOcr: around the 1000 KB and the 1 MB
\* tests, every page a part of its own size when split
OcrDocuments ==
  UNION {[bytes : {SmallBytes, EdgeBytes, EdgeBytes + 1, BytesPerMB},
          pageCount : {n},
          load : {"ok", "raise"},
          pageBytes : [1..n -> {SmallBytes, EdgeBytes, LargeBytes}],
          builds : [1..n -> {"saved", "raise"}]] : n \in 1..MaxOcrPages}

ApiOutcomes == {"results", "errorMessage", "raise", "nothing"}

NoFailure == [kind |-> "none", at |-> 0]

OcrInit ==
  /\ SumIdle
  /\ ConcIdle
  /\ ReqIdle
  /\ rdIn = <<>>
  /\ rdOut = <<>>
  /\ \E doc \in OcrDocuments :
       callIn \in [fn : {"processOcr"}, exists : BOOLEAN, doc : {doc},
                   reducer : {"compresses", "fails"},
                   api : [1..doc.pageCount -> ApiOutcomes],
                   fails : {NoFailure}]
  /\ callOut = <<>>

ProcessOcrCall ==
  /\ callIn # <<>>
  /\ callIn.fn = "processOcr"
  /\ callOut = <<>>
  /\ callOut' = <<ProcessOcr(callIn.exists, callIn.doc, callIn.reducer,
                             callIn.api, callIn.fails)>>
  /\ UNCHANGED <<callIn, concVars, rdIn, rdOut, sumVars, reqVars>>

OcrNext == ProcessOcrCall

SpecOcr == OcrInit /\ [][OcrNext]_vars

OcrCalled == callIn # <<>> /\ callIn.fn = "processOcr" /\ callOut # <<>>

\* allResults follows the order of the parts
InPartOrder(pages) ==
  \A i, j \in 1..Len(pages) : i < j => pages[i].part < pages[j].part

\* every part over the limit was left out and gave a placeholder
OversizeSkipped(limitExceeded(_)) ==
  \A i \in 1..Len(callOut[1].parts) :
    limitExceeded(callOut[1].parts[i].bytes) =>
      /\ \A k \in 1..Len(callOut[1].sent) : callOut[1].sent[k].part # i
      /\ callOut[1].kind = "return" =>
           \E k \in 1..Len(callOut[1].pages) :
             callOut[1].pages[k] = OcrPage(i, "tooLarge")

OverLimitBytes(bytes) == bytes > 1000 * 1024

OverLimitRounded(bytes) == RoundKB(bytes) > 1000

\* C31 as stated: processOcr never sends a part larger than 1000 KB: a part
\* still larger after the quality reduction is not sent and gives a
\* placeholder result, and the results are in part order.
C31_NoPartOverLimitSent ==
  OcrCalled =>
    /\ \A k \in 1..Len(callOut[1].sent) : ~OverLimitBytes(callOut[1].sent[k].bytes)
    /\ OversizeSkipped(OverLimitBytes)
    /\ InPartOrder(callOut[1].pages)

\* C31: processOcr never sends a part whose size, rounded to the nearest
\* KB, is over 1000: such a part is not sent and gives a placeholder
\* result, and the results are in part order.
C31_NoPartOverRoundedLimitSent ==
  OcrCalled =>
    /\ \A k \in 1..Len(callOut[1].sent) : ~OverLimitRounded(callOut[1].sent[k].bytes)
    /\ OversizeSkipped(OverLimitRounded)
    /\ InPartOrder(callOut[1].pages)

\* a split document whose first part stayed over the limit and gave a
\* placeholder, and whose second part was sent
C31_Witness ==
  /\ OcrCalled
  /\ callOut[1].kind = "return"
  /\ Len(callOut[1].parts) = 2
  /\ callOut[1].parts[1].bytes = LargeBytes
  /\ callOut[1].pages[1] = OcrPage(1, "tooLarge")
  /\ \E k \in 1..Len(callOut[1].sent) : callOut[1].sent[k].part = 2

\* ---------------------------------------------------------------------
\* The Direct stage on a document without extractable text
\* ---------------------------------------------------------------------

\* the Direct stage of the request ended with the metadata or error page of
\* parsePdf's last method as the text of the document
DirectAcceptedMetadata ==
  /\ extractionMethod = "direto"
  /\ finalText = "meta"

\* C32: when the extraction methods of parsePdf all fail on the original
\* document, the Direct stage is a failed attempt and a later stage runs:
\* the metadata or error page of the extractor is never accepted as the
\* result of the Direct stage.
C32_MetadataPageNotAcceptedAsDirect == ~DirectAcceptedMetadata

\* page p of the document went to the OCR service in a part of its own
PageSentAlone(p) ==
  \E k \in 1..Len(callOut[1].sent) :
    LET part == callOut[1].parts[callOut[1].sent[k].part]
    IN  ~part.whole /\ part.first = p /\ part.last = p

\* C33: a document of several pages and more than 1000 KB is divided into
\* single-page parts before OCR, and every page small enough on its own is
\* sent to the OCR service.
C33_LargeDocumentSplitIntoPages ==
  (OcrCalled /\ callIn.exists /\ callIn.doc.pageCount > 1
     /\ callIn.doc.bytes > 1000 * 1024) =>
    /\ \A i \in 1..Len(callOut[1].parts) :
         ~callOut[1].parts[i].whole /\ callOut[1].parts[i].first = callOut[1].parts[i].last
    /\ \A p \in 1..callIn.doc.pageCount :
         callIn.doc.pageBytes[p] <= 1000 * 1024 => PageSentAlone(p)

\* ---------------------------------------------------------------------
\* Temporary files of processOcr and PdfSizeManager
\* ---------------------------------------------------------------------

\* a temporary file of processWithSizeManagement
TempFile(kind, n) == [kind |-> kind, n |-> n]

TempFilesTo(kind, n) == {TempFile(kind, i) : i \in 1..n}

SizeManagerResult(kind, left) == [kind |-> kind, left |-> left]

\* temp_compressed is written and given to processorFn outside any inner
\* try: when processorFn throws, the outer catch rethrows before the
\* cleanup loop and the files written so far stay; the loop removes them
\* all otherwise
ProcessCompressed(written, direct, failure) ==
  IF failure.kind = "compressed"
    THEN SizeManagerResult("raise", written)
  ELSE IF direct = "raise"
    THEN SizeManagerResult("raise", written \cup {TempFile("temp_compressed", 1)})
  ELSE SizeManagerResult("return", {})

\* processWithSizeManagement(filePath, processorFn): a part or page file is
\* written and pushed to tempFiles before its processorFn call, which has
\* its own try; failure names the writeFileSync that throws
ProcessWithSizeManagement(strategy, over, split, count, direct, failure) ==
  CASE strategy = "direct" ->
         SizeManagerResult(IF direct = "raise" THEN "raise" ELSE "return", {})
    [] strategy = "dividir" ->
         IF failure.kind = "write" /\ failure.at <= count
           THEN SizeManagerResult("raise", TempFilesTo("temp_part", failure.at - 1))
           ELSE SizeManagerResult("return", {})
    [] strategy = "ocr" ->
         IF ~over
           THEN ProcessCompressed({}, direct, failure)
         ELSE IF split = "raise"
           THEN ProcessCompressed({}, direct, failure)
         ELSE IF failure.kind = "write" /\ failure.at <= count
           THEN ProcessCompressed(TempFilesTo("temp_page", failure.at - 1), direct, failure)
         ELSE SizeManagerResult("return", {})

\* the file system calls that can throw: none, the writeFileSync or the
\* statSync of part i, the writeFileSync of temp_compressed
FileFailures(n) ==
  {NoFailure} \cup [kind : {"write", "stat"}, at : 1..n]

SizeManagerInputs ==
  [fn : {"processWithSizeManagement"}, strategy : {"direct", "dividir", "ocr"},
   over : BOOLEAN, split : {"ok", "raise"}, count : 1..MaxOcrPages,
   direct : {"ok", "raise"},
   failure : {NoFailure, [kind |-> "compressed", at |-> 0]}
               \cup [kind : {"write"}, at : 1..MaxOcrPages]]

\* calls of processOcr on a document of small pages, with every outcome of
\* the OCR service and every file system failure
OcrFileInputs ==
  UNION {[fn : {"processOcr"}, exists : BOOLEAN,
          doc : [bytes : {SmallBytes, BytesPerMB}, pageCount : {n}, load : {"ok"},
                 pageBytes : [1..n -> {SmallBytes}], builds : [1..n -> {"saved"}]],
          reducer : {"fails"},
          api : [1..n -> ApiOutcomes],
          fails : FileFailures(n)] : n \in 1..MaxOcrPages}

TempFilesInit ==
  /\ SumIdle
  /\ ConcIdle
  /\ ReqIdle
  /\ rdIn = <<>>
  /\ rdOut = <<>>
  /\ callIn \in OcrFileInputs \cup SizeManagerInputs
  /\ callOut = <<>>

ProcessWithSizeManagementCall ==
  /\ callIn # <<>>
  /\ callIn.fn = "processWithSizeManagement"
  /\ callOut = <<>>
  /\ callOut' = <<ProcessWithSizeManagement(callIn.strategy, callIn.over, callIn.split,
                                            callIn.count, callIn.direct, callIn.failure)>>
  /\ UNCHANGED <<callIn, concVars, rdIn, rdOut, sumVars, reqVars>>

TempFilesNext ==
  \/ ProcessOcrCall
  \/ ProcessWithSizeManagementCall

SpecTempFiles == TempFilesInit /\ [][TempFilesNext]_vars

\* C34: when processOcr or processWithSizeManagement has returned or
\* raised, none of the part files it wrote exists any more.
C34_HelperFilesRemovedOnEveryExit ==
  (callIn # <<>> /\ callOut # <<>>) => callOut[1].left = {}

\* ---------------------------------------------------------------------
\* splitPDF and the loop over its parts
\* ---------------------------------------------------------------------

PagesPerPartValues == {1, 2, 5}

SplitDocuments ==
  UNION {[bytes : {EdgeBytes + 1, BytesPerMB},
          pageCount : {n},
          load : {"ok", "raise"},
          pageBytes : [1..n -> {SmallBytes}],
          builds : [1..n -> {"saved", "empty", "raise"}]] : n \in 1..MaxDocPages}

SplitInit ==
  /\ SumIdle
  /\ ConcIdle
  /\ ReqIdle
  /\ rdIn = <<>>
  /\ rdOut = <<>>
  /\ \E doc \in SplitDocuments :
       callIn \in [fn : {"splitPDF"}, doc : {doc}, pagesPerPart : PagesPerPartValues,
                   parse : [1..doc.pageCount -> {"pages", "raise"}]]
  /\ callOut = <<>>

\* the parts whose parsePdf gave pages, in order: a parsePdf that throws is
\* caught inside the loop
RECURSIVE ParsedParts(_, _, _)
ParsedParts(parts, parse, i) ==
  IF i > Len(parts) THEN <<>>
  ELSE (IF parse[i] = "pages" THEN <<i>> ELSE <<>>) \o ParsedParts(parts, parse, i + 1)

\* pdfParts = await splitPDF(pdfBuffer, pagesPerPart) and the loop that
\* parses every part
SplitPDFCall ==
  /\ callIn # <<>>
  /\ callIn.fn = "splitPDF"
  /\ callOut = <<>>
  /\ LET parts == SplitPDF(callIn.doc, callIn.pagesPerPart)
     IN  callOut' = <<[kind |-> "return", parts |-> parts,
                       parsed |-> ParsedParts(parts, callIn.parse, 1)]>>
  /\ UNCHANGED <<callIn, concVars, rdIn, rdOut, sumVars, reqVars>>

SplitNext == SplitPDFCall

SpecSplit == SplitInit /\ [][SplitNext]_vars

SplitCalled == callIn # <<>> /\ callIn.fn = "splitPDF" /\ callOut # <<>>

\* the parts of the call that the document allows to build
BuildableParts ==
  {k \in 1..callIn.doc.pageCount :
     /\ (k - 1) * callIn.pagesPerPart < callIn.doc.pageCount
     /\ callIn.doc.builds[k] = "saved"}

\* the cases in which the original buffer is the only part
NotSplit ==
  \/ callIn.doc.load # "ok"
  \/ callIn.doc.pageCount <= callIn.pagesPerPart
  \/ callIn.doc.bytes < 1024 * 1024
  \/ BuildableParts = {}

\* C35: splitPDF never raises and returns at least one buffer, the original
\* alone when the document cannot be loaded, has at most pagesPerPart
\* pages, is under 1 MB or no part could be built; when it splits, the
\* parts are in ascending page order, no page is in two parts, there are at
\* most ceil(pageCount / pagesPerPart) parts, and a part that cannot be
\* built or parsed is skipped while the others are kept.
C35_SplitNeverRaisesAndKeepsOrder ==
  SplitCalled =>
    LET parts == callOut[1].parts
        per == callIn.pagesPerPart
    IN  /\ callOut[1].kind = "return"
        /\ Len(parts) >= 1
        /\ NotSplit => parts = <<PdfPart(1, callIn.doc.pageCount, callIn.doc.bytes, TRUE)>>
        /\ ~NotSplit =>
             /\ \A i \in 1..Len(parts) :
                  /\ ~parts[i].whole
                  /\ 1 <= parts[i].first
                  /\ parts[i].first <= parts[i].last
                  /\ parts[i].last <= callIn.doc.pageCount
             /\ \A i, j \in 1..Len(parts) : i < j => parts[i].last < parts[j].first
             /\ (Len(parts) - 1) * per < callIn.doc.pageCount
             /\ {parts[i].first : i \in 1..Len(parts)}
                  = {(k - 1) * per + 1 : k \in BuildableParts}
        /\ {callOut[1].parsed[i] : i \in 1..Len(callOut[1].parsed)}
             = {i \in 1..Len(parts) : callIn.parse[i] = "pages"}

\* a split in which one part could not be built and, of the parts
\* returned, the first could not be parsed and a later one was
C35_Witness ==
  /\ SplitCalled
  /\ ~NotSplit
  /\ \E k \in 1..callIn.doc.pageCount :
       (k - 1) * callIn.pagesPerPart < callIn.doc.pageCount /\ callIn.doc.builds[k] # "saved"
  /\ Len(callOut[1].parts) >= 2
  /\ callIn.parse[1] = "raise"
  /\ callOut[1].parsed # <<>>

\* ---------------------------------------------------------------------
\* The seen-set of generateSummaries against the emitted lines
\* ---------------------------------------------------------------------

\* the lines of the merged result that carry the key
EmittedWithKey(key) ==
  {j \in 1..Len(allResults) :
     HasExamName(allResults[j]) /\ ExamKey(allResults[j]) = key}

\* C36: when generateSummaries has iterated its last page, every key of
\* seenExams is the key of exactly one line of the merged result, so that
\* no line was dropped as the duplicate of a line that is not emitted.
C36_SeenKeysAreEmitted ==
  (sPc = "page" /\ sPagesLeft = 0) =>
    \A key \in seenExams : Cardinality(EmittedWithKey(key)) = 1

\* ---------------------------------------------------------------------
\* processLargePdfWithBlob: deletion of the blob
\* ---------------------------------------------------------------------

\* a finally block that never schedules the deletion
UrlNeverKnown(result) == FALSE

\* finally: if (blobInfo?.url) setTimeout(() => deletePdfFromBlob(url), 5000)
UrlKnown(result) == result.cleanup

\* deletePdfFromBlob(url) called by the timer
DeleteEvent(removed) == [kind |-> "delete", removed |-> removed]

\* the timer of the finally block fires: deletePdfFromBlob awaits del(url)
\* and returns true, or false from its catch when del throws; the callback
\* has its own try as well, and the result of the call is with the caller
\* already
DeleteTimerFires ==
  /\ callIn # <<>>
  /\ callIn.fn = "processLargePdfWithBlob"
  /\ Len(callOut) = 1
  /\ UrlKnown(callOut[1])
  /\ \E del \in {"ok", "raise"} :
       callOut' = Append(callOut, DeleteEvent(del = "ok"))
  /\ UNCHANGED <<callIn, concVars, rdIn, rdOut, sumVars, reqVars>>

BlobCleanupNext ==
  \/ ProcessLargePdfWithBlobCall
  \/ DeleteTimerFires

\* the call runs to its end, and the event loop fires a timer that is set
SpecBlobCleanup ==
  /\ LargePdfInit
  /\ [][BlobCleanupNext]_vars
  /\ WF_vars(ProcessLargePdfWithBlobCall)
  /\ WF_vars(DeleteTimerFires)

\* savePdfToBlob of the call succeeded
PutSucceeded ==
  /\ callIn.version = "router" \/ callIn.configured
  /\ callIn.put = "ok"

Deletions == {i \in 1..Len(callOut) : callOut[i].kind = "delete"}

\* C37: when the put of processLargePdfWithBlob succeeded, the deletion of
\* the blob is eventually invoked, and exactly once, whether the call
\* returned the blob result, a fallback result or raised; when the put
\* failed no deletion is invoked; and a deletion, failed or not, leaves the
\* result the caller got as it was.
C37_BlobDeletedOnceAfterPut ==
  /\ [](Cardinality(Deletions) <= 1)
  /\ [](~PutSucceeded => Deletions = {})
  /\ [][callOut # <<>> => (callOut' # <<>> /\ callOut'[1] = callOut[1])]_vars
  /\ PutSucceeded ~> (Cardinality(Deletions) = 1)

\* a call whose put succeeded and that raised, after a deletion that failed
C37_Witness ==
  /\ callIn # <<>>
  /\ callIn.fn = "processLargePdfWithBlob"
  /\ PutSucceeded
  /\ Len(callOut) = 2
  /\ callOut[1].kind = "raise"
  /\ callOut[2] = DeleteEvent(FALSE)

\* ---------------------------------------------------------------------
\* decryptPdfWithPdfLib: the temporary input file of a Buffer
\* ---------------------------------------------------------------------

\* `const outputPath` is declared inside the try block, so the finally
\* block has no binding for it: evaluating `tempFile !== outputPath` throws
\* a ReferenceError, which the catch around the removal logs
OutputPathInScope == FALSE

\* the body of tempFiles.forEach in the finally block: whether tempFile is
\* unlinked.  The operands of && are evaluated from left to right
RemovedInFinally(tempFile, present, inputPath, unlink) ==
  IF tempFile \notin present THEN FALSE
  ELSE IF ~(tempFile = "temp_input" \/ tempFile = inputPath) THEN FALSE
  ELSE IF ~OutputPathInScope THEN FALSE
  ELSE IF tempFile = "decrypted" THEN FALSE
  ELSE unlink = "ok"

\* the files under os.tmpdir() after the finally block
AfterFinally(listed, present, inputPath, unlink) ==
  present \ {f \in listed : RemovedInFinally(f, present, inputPath, unlink)}

\* decryptPdfWithPdfLib(pdfInput) with the files it leaves: a Buffer is
\* written to temp_input_* and pushed to tempFiles, a path must exist, any
\* other input throws; outputPath is pushed before the document is loaded
DecryptWithFiles(input, writeInput, load, copies, write, unlink) ==
  IF input = "buffer" /\ writeInput = "raise"
    THEN [result |-> DecryptFailure, left |-> {}]
  ELSE IF input \notin {"buffer", "path"}
    THEN [result |-> DecryptFailure, left |-> {}]
  ELSE LET result == DecryptPdfWithPdfLib(load, copies, write)
           inputPath == IF input = "buffer" THEN "temp_input" ELSE "original"
           listed == IF input = "buffer" THEN {"temp_input", "decrypted"} ELSE {"decrypted"}
           present == (IF input = "buffer" THEN {"temp_input"} ELSE {})
                        \cup (IF result.success THEN {"decrypted"} ELSE {})
       IN  [result |-> result, left |-> AfterFinally(listed, present, inputPath, unlink)]

DecryptFilesInit ==
  /\ SumIdle
  /\ ConcIdle
  /\ ReqIdle
  /\ rdIn = <<>>
  /\ rdOut = <<>>
  /\ callIn \in [fn : {"decryptPdfWithPdfLib"}, input : {"buffer", "path", "other"},
                 writeInput : {"written", "raise"}, load : {"loaded", "raise"},
                 copies : CopyOutcomes, write : {"written", "raise"},
                 unlink : {"ok", "raise"}]
  /\ callOut = <<>>

DecryptWithFilesCall ==
  /\ callIn # <<>>
  /\ callIn.fn = "decryptPdfWithPdfLib"
  /\ callOut = <<>>
  /\ callOut' = <<DecryptWithFiles(callIn.input, callIn.writeInput, callIn.load,
                                   callIn.copies, callIn.write, callIn.unlink)>>
  /\ UNCHANGED <<callIn, concVars, rdIn, rdOut, sumVars, reqVars>>

DecryptFilesNext == DecryptWithFilesCall

SpecDecryptFiles == DecryptFilesInit /\ [][DecryptFilesNext]_vars

\* C38: when decryptPdfWithPdfLib was given a Buffer and has returned, its
\* temp_input file no longer exists, on success and on failure, and the
\* only file left is the decrypted output of a successful call.
C38_TempInputRemoved ==
  (callIn # <<>> /\ callIn.input = "buffer" /\ callOut # <<>>) =>
    /\ "temp_input" \notin callOut[1].left
    /\ callOut[1].left = IF callOut[1].result.success THEN {"decrypted"} ELSE {}

====
